---- MODULE Spec2Model ----
(***************************************************************************)
(* Cluster reconciliation core of cluster-api: the phase labeler, the      *)
(* generic external-object reconciler and the infrastructure, etcd,        *)
(* control-plane and kubeconfig sub-reconcilers of                         *)
(* controllers/cluster_controller_phases.go, run against one Cluster and   *)
(* the three provider objects it references.                               *)
(***************************************************************************)
EXTENDS Integers, Sequences, FiniteSets, TLC

VARIABLES
    cluster,    \* the Cluster object (spec, metadata and status)
    objs,       \* the referenced provider objects on the API server, by kind
    watches,    \* kinds the external tracker watches
    secrets,    \* which secrets of the cluster exist
    queued,     \* the Cluster's key is in the controller's work-queue
    last,       \* what the last step was and, for a reconcile, what it returned
    envSteps,   \* external changes so far (bounded by MaxEnvSteps)
    listing,    \* a call of ListResources: its inputs, the API server, its result
    run         \* a reconcile in progress: its position, its Cluster, its result

vars == <<cluster, objs, watches, secrets, queued, last, envSteps, listing, run>>

----------------------------------------------------------------------------
\* Bounds of the model.

\* External changes (provider or user writes) in one behaviour.
MaxEnvSteps == 3

----------------------------------------------------------------------------
\* Vocabulary.

Kinds == {"infra", "etcd", "cp"}

ClusterName == "c1"

PausedAnnotation == "cluster.x-k8s.io/paused"

OtherAnnotation == "example.com/other"

\* 30 * time.Second, in seconds.
RequeueSeconds == 30

ClusterPhasePending == "Pending"

ClusterPhaseProvisioning == "Provisioning"

ClusterPhaseProvisioned == "Provisioned"

ClusterPhaseFailed == "Failed"

ClusterPhaseDeleting == "Deleting"

\* A phase string outside the vocabulary, for the labeler's inputs.
UnknownPhase == "Bogus"

InfrastructureReadyCondition == "InfrastructureReady"

ControlPlaneReadyCondition == "ControlPlaneReady"

ControlPlaneInitializedCondition == "ControlPlaneInitialized"

ManagedExternalEtcdClusterReadyCondition == "ManagedEtcdReady"

ManagedExternalEtcdClusterInitializedCondition == "ManagedEtcdInitialized"

WaitingForInfrastructureFallbackReason == "WaitingForInfrastructure"

WaitingForControlPlaneFallbackReason == "WaitingForControlPlane"

WaitingForControlPlaneProviderInitializedReason == "WaitingForControlPlaneProviderInitialized"

WaitingForEtcdClusterInitializedReason == "WaitingForEtcdClusterProviderInitialized"

ConditionTypes ==
    {InfrastructureReadyCondition, ControlPlaneReadyCondition,
     ControlPlaneInitializedCondition, ManagedExternalEtcdClusterReadyCondition,
     ManagedExternalEtcdClusterInitializedCondition}

\* A condition that is not in the set.
NoCondition == [status |-> "Absent", severity |-> "", reason |-> ""]

\* The Ready condition a provider reports on its own object.
ProviderCondition(status) ==
    [status |-> status, severity |-> IF status = "True" THEN "" ELSE "Warning",
     reason |-> IF status = "True" THEN "" ELSE "ProviderReason"]

NoEndpoint == [host |-> "", port |-> 0]

ValidEndpoint == [host |-> "a", port |-> 1]

HostOnlyEndpoint == [host |-> "a", port |-> 0]

PortOnlyEndpoint == [host |-> "", port |-> 1]

Endpoints == {NoEndpoint, HostOnlyEndpoint, PortOnlyEndpoint, ValidEndpoint}

\* The failure a provider of kind k reports.
ReasonOf(k) == k \o "-reason"

MessageOf(k) == k \o "-message"

----------------------------------------------------------------------------
\* Objects.

\* The slot of a provider object that does not exist.
NoObj ==
    [exists |-> FALSE, annotations |-> {}, ownerRef |-> "none", clusterLabel |-> "",
     deletionTimestamp |-> FALSE, ready |-> FALSE, initialized |-> FALSE,
     failureReason |-> "", failureMessage |-> "", readyCondition |-> "Absent",
     endpoint |-> [present |-> FALSE, value |-> NoEndpoint],
     failureDomains |-> "missing"]

\* A provider object as created by higher-level tooling, not yet adopted.
FreshObj == [NoObj EXCEPT !.exists = TRUE]

\* A Cluster as created: empty status.
FreshCluster(infra, cp, etcd, ep) ==
    [infrastructureRef |-> infra, controlPlaneRef |-> cp, managedExternalEtcdRef |-> etcd,
     paused |-> FALSE, deletionTimestamp |-> FALSE, controlPlaneEndpoint |-> ep,
     phase |-> "", infrastructureReady |-> FALSE, controlPlaneReady |-> FALSE,
     managedExternalEtcdReady |-> FALSE, managedExternalEtcdInitialized |-> FALSE,
     failureReason |-> "", failureMessage |-> <<>>, failureDomains |-> "none",
     conditions |-> [t \in ConditionTypes |-> NoCondition]]

\* Whether the Cluster's spec references a provider object of kind k.
HasRef(c, k) ==
    CASE k = "infra" -> c.infrastructureRef
      [] k = "etcd" -> c.managedExternalEtcdRef
      [] k = "cp" -> c.controlPlaneRef

----------------------------------------------------------------------------
\* Collaborators the sub-reconcilers call.

\* APIEndpoint.IsValid: host non-empty and port non-zero.
IsValid(ep) == ep.host # "" /\ ep.port # 0

\* annotations.HasPausedAnnotation: the key is present, whatever its value.
HasPausedAnnotation(o) == \E a \in o.annotations : a[1] = PausedAnnotation

\* annotations.IsPaused: the Cluster or the object is paused.
IsPaused(c, o) == c.paused \/ HasPausedAnnotation(o)

\* external.IsReady: status.ready, false when the field is missing.
IsReady(o) == o.ready

\* external.IsInitialized: status.initialized, false when the field is missing.
IsInitialized(o) == o.initialized

\* conditions.IsTrue.
IsTrue(c, t) == c.conditions[t].status = "True"

\* conditions.MarkTrue.
MarkTrue(c, t) ==
    [c EXCEPT !.conditions[t] = [status |-> "True", severity |-> "", reason |-> ""]]

\* conditions.MarkFalse.
MarkFalse(c, t, reason, severity) ==
    [c EXCEPT !.conditions[t] = [status |-> "False", severity |-> severity, reason |-> reason]]

\* conditions.SetMirror with WithFallbackValue: the provider's Ready condition
\* when it has one, else a condition of status `ready` with the fallback reason.
SetMirror(c, t, o, ready, reason) ==
    [c EXCEPT !.conditions[t] =
        IF o.readyCondition # "Absent"
        THEN ProviderCondition(o.readyCondition)
        ELSE IF ready THEN [status |-> "True", severity |-> "", reason |-> ""]
        ELSE [status |-> "False", severity |-> "Info", reason |-> reason]]

\* The provider's failure message copied without the citation.
FailureMessageOf_NoCitation(k, msg) == <<msg>>

\* The citation fmt.Sprintf puts in front of a provider's failure message.
FailureMessageOf(k, msg) ==
    <<"Failure detected from referenced resource", k, msg>>

----------------------------------------------------------------------------
\* What a sub-reconciler returns, with the world as it leaves it.  `world` is
\* [cluster, objs, watches, secrets, events]; events are the API writes and
\* reads a reconcile made, kept for the properties.

Ok == [err |-> FALSE, requeueAfter |-> 0, requeue |-> FALSE, panic |-> FALSE]

RequeueAfter30 == [Ok EXCEPT !.requeueAfter = RequeueSeconds]

Failed(requeue) == [Ok EXCEPT !.err = TRUE, !.requeue = requeue]

\* A nil pointer dereference: the call does not return.
Panic == [Ok EXCEPT !.err = TRUE, !.panic = TRUE]

BoolName(b) == IF b THEN "true" ELSE "false"

Ret(w, res) == [w |-> w, res |-> res]

Emit(w, e) == [w EXCEPT !.events = @ \cup {e}]

\* reconcilePhase as an else-if chain: the first clause that holds wins.
reconcilePhase_FirstWins(c) ==
    [c EXCEPT !.phase =
        IF c.phase = "" THEN ClusterPhasePending
        ELSE IF c.infrastructureRef THEN ClusterPhaseProvisioning
        ELSE IF c.infrastructureReady /\ IsValid(c.controlPlaneEndpoint)
        THEN ClusterPhaseProvisioned
        ELSE IF c.failureReason # "" \/ c.failureMessage # <<>> THEN ClusterPhaseFailed
        ELSE IF c.deletionTimestamp THEN ClusterPhaseDeleting
        ELSE c.phase]

\* reconcilePhase looking at failureReason alone for Failed.
reconcilePhase_ReasonOnly(c) ==
    LET p1 == IF c.phase = "" THEN ClusterPhasePending ELSE c.phase
        p2 == IF c.infrastructureRef THEN ClusterPhaseProvisioning ELSE p1
        p3 == IF c.infrastructureReady /\ IsValid(c.controlPlaneEndpoint)
              THEN ClusterPhaseProvisioned ELSE p2
        p4 == IF c.failureReason # "" THEN ClusterPhaseFailed ELSE p3
        p5 == IF c.deletionTimestamp THEN ClusterPhaseDeleting ELSE p4
    IN  [c EXCEPT !.phase = p5]

\* reconcilePhase with the Failed clause after the Deleting clause.
reconcilePhase_FailedLast(c) ==
    LET p1 == IF c.phase = "" THEN ClusterPhasePending ELSE c.phase
        p2 == IF c.infrastructureRef THEN ClusterPhaseProvisioning ELSE p1
        p3 == IF c.infrastructureReady /\ IsValid(c.controlPlaneEndpoint)
              THEN ClusterPhaseProvisioned ELSE p2
        p4 == IF c.deletionTimestamp THEN ClusterPhaseDeleting ELSE p3
        p5 == IF c.failureReason # "" \/ c.failureMessage # <<>>
              THEN ClusterPhaseFailed ELSE p4
    IN  [c EXCEPT !.phase = p5]

\* reconcilePhase setting Provisioning whether or not infrastructureRef is set.
reconcilePhase_AlwaysProvisioning(c) ==
    LET p2 == ClusterPhaseProvisioning
        p3 == IF c.infrastructureReady /\ IsValid(c.controlPlaneEndpoint)
              THEN ClusterPhaseProvisioned ELSE p2
        p4 == IF c.failureReason # "" \/ c.failureMessage # <<>>
              THEN ClusterPhaseFailed ELSE p3
        p5 == IF c.deletionTimestamp THEN ClusterPhaseDeleting ELSE p4
    IN  [c EXCEPT !.phase = p5]

\* reconcilePhase: each clause sets the phase when it is true, in this order.
reconcilePhase(c) ==
    LET p1 == IF c.phase = "" THEN ClusterPhasePending ELSE c.phase
        p2 == IF c.infrastructureRef THEN ClusterPhaseProvisioning ELSE p1
        p3 == IF c.infrastructureReady /\ IsValid(c.controlPlaneEndpoint)
              THEN ClusterPhaseProvisioned ELSE p2
        p4 == IF c.failureReason # "" \/ c.failureMessage # <<>>
              THEN ClusterPhaseFailed ELSE p3
        p5 == IF c.deletionTimestamp THEN ClusterPhaseDeleting ELSE p4
    IN  [c EXCEPT !.phase = p5]

\* Adoption with the cluster-name label left out.
adopt_NoLabel(obj) == [obj EXCEPT !.ownerRef = "cluster"]

\* The controller reference to the Cluster and the cluster-name label, as
\* reconcileExternal sets them on the fetched object.
adopt(obj) == [obj EXCEPT !.ownerRef = "cluster", !.clusterLabel = ClusterName]

\* The failure of the object copied only while the Cluster holds none.
surfaceFailures_KeepFirst(c, k, obj) ==
    LET c1 == IF obj.failureReason # "" /\ c.failureReason = ""
              THEN [c EXCEPT !.failureReason = obj.failureReason] ELSE c
    IN  IF obj.failureMessage # "" /\ c.failureMessage = <<>>
        THEN [c1 EXCEPT !.failureMessage = FailureMessageOf(k, obj.failureMessage)]
        ELSE c1

\* The failure fields of the Cluster mirrored from the object: copied when
\* set and cleared when the object has none.
surfaceFailures_Mirrored(c, k, obj) ==
    [c EXCEPT !.failureReason = obj.failureReason,
              !.failureMessage = IF obj.failureMessage # ""
                                 THEN FailureMessageOf(k, obj.failureMessage)
                                 ELSE <<>>]

\* The failure reason and message of the object, if any, set in the Cluster.
surfaceFailures(c, k, obj) ==
    LET c1 == IF obj.failureReason # ""
              THEN [c EXCEPT !.failureReason = obj.failureReason] ELSE c
    IN  IF obj.failureMessage # ""
        THEN [c1 EXCEPT !.failureMessage = FailureMessageOf(k, obj.failureMessage)]
        ELSE c1

\* What reconcileExternal returns for an object that is not found, as an
\* error instead of a requeue.
notFound_AsError(none) == [none EXCEPT !.err = TRUE]

\* What reconcileExternal returns for an object that is not found.
notFound(none) == [none EXCEPT !.requeueAfter = RequeueSeconds]

\* reconcileExternal with the pause gate after the patch, the watch and the
\* failures instead of before them.
reconcileExternal_PatchBeforePause(w, k) ==
    LET obj == w.objs[k]
        none == [w |-> w, err |-> FALSE, requeueAfter |-> 0, paused |-> FALSE, result |-> NoObj]
        got == Emit(w, <<"fetch", k>>)
    IN  IF ~obj.exists
        THEN notFound(none)
        ELSE IF obj.ownerRef = "other"
        THEN [none EXCEPT !.w = Emit(got, <<"alreadyOwned", k>>), !.err = TRUE]
        ELSE
            LET patched == adopt(obj)
                c2 == surfaceFailures(w.cluster, k, obj)
                w2 == [got EXCEPT !.objs[k] = patched, !.watches = @ \cup {k},
                                  !.cluster = c2, !.events = @ \cup {<<"patch", k>>}]
            IN  IF IsPaused(w.cluster, obj)
                THEN [none EXCEPT !.w = Emit(w2, <<"paused", k>>), !.paused = TRUE]
                ELSE [none EXCEPT !.w = w2, !.result = patched]

\* reconcileExternal handles the object of kind k the Cluster references:
\* [w, err, requeueAfter, paused, result]; result is the object as patched
\* when the call got that far.
reconcileExternal(w, k) ==
    LET obj == w.objs[k]
        none == [w |-> w, err |-> FALSE, requeueAfter |-> 0, paused |-> FALSE, result |-> NoObj]
        got == Emit(w, <<"fetch", k>>)
    IN  IF ~obj.exists
        THEN notFound(none)
        ELSE IF IsPaused(w.cluster, obj)
        THEN [none EXCEPT !.w = Emit(got, <<"paused", k>>), !.paused = TRUE]
        ELSE IF obj.ownerRef = "other"
        THEN [none EXCEPT !.w = Emit(got, <<"alreadyOwned", k>>), !.err = TRUE]
        ELSE
            LET patched == adopt(obj)
                c2 == surfaceFailures(w.cluster, k, obj)
                w2 == [got EXCEPT !.objs[k] = patched, !.watches = @ \cup {k},
                                  !.cluster = c2, !.events = @ \cup {<<"patch", k>>}]
            IN  [none EXCEPT !.w = w2, !.result = patched]

\* The endpoint taken from the infrastructure object when the Cluster has a
\* valid one already, instead of when it has none.
copyEndpoint_WhenValid(c, infraConfig) ==
    IF ~IsValid(c.controlPlaneEndpoint) THEN c
    ELSE [c EXCEPT !.controlPlaneEndpoint = infraConfig.endpoint.value]

\* Spec.ControlPlaneEndpoint of the Cluster, taken from the infrastructure
\* object unless the Cluster has a valid one already.
copyEndpoint(c, infraConfig) ==
    IF IsValid(c.controlPlaneEndpoint) THEN c
    ELSE [c EXCEPT !.controlPlaneEndpoint = infraConfig.endpoint.value]

\* The failure domains of the infrastructure object never recorded.
copyFailureDomains_Never(c, infraConfig) == c

\* Status.FailureDomains of the Cluster, taken from the infrastructure object
\* when it has the field.
copyFailureDomains(c, infraConfig) ==
    IF infraConfig.failureDomains = "present"
    THEN [c EXCEPT !.failureDomains = "copied"] ELSE c

\* reconcileInfrastructure past its check of Spec.InfrastructureRef.
reconcileInfrastructureRef(w) ==
    LET ext == reconcileExternal(w, "infra")
        infraConfig == ext.result
        ready == IsReady(infraConfig)
        c1 == [ext.w.cluster EXCEPT !.infrastructureReady = ready]
        c2 == SetMirror(c1, InfrastructureReadyCondition, infraConfig, ready,
                        WaitingForInfrastructureFallbackReason)
        c3 == copyEndpoint(c2, infraConfig)
        c4 == copyFailureDomains(c3, infraConfig)
    IN  IF ext.err THEN Ret(ext.w, Failed(FALSE))
        ELSE IF ext.requeueAfter > 0 THEN Ret(ext.w, RequeueAfter30)
        ELSE IF ext.paused THEN Ret(ext.w, Ok)
        ELSE IF infraConfig.deletionTimestamp THEN Ret(ext.w, Ok)
        ELSE IF ~ready THEN Ret([ext.w EXCEPT !.cluster = c2], Ok)
        ELSE IF ~IsValid(c2.controlPlaneEndpoint) /\ ~infraConfig.endpoint.present
        THEN Ret([ext.w EXCEPT !.cluster = c2], Failed(FALSE))
        ELSE IF infraConfig.failureDomains = "malformed"
        THEN Ret([ext.w EXCEPT !.cluster = c3], Failed(FALSE))
        ELSE Ret([ext.w EXCEPT !.cluster = c4], Ok)

\* reconcileInfrastructure without the check of Spec.InfrastructureRef.
reconcileInfrastructure_NoRefCheck(w) == reconcileInfrastructureRef(w)

\* reconcileInfrastructure reconciles the Spec.InfrastructureRef object.
reconcileInfrastructure(w) ==
    IF ~w.cluster.infrastructureRef THEN Ret(w, Ok) ELSE reconcileInfrastructureRef(w)

\* pauseControlPlane pausing when the etcd cluster is ready instead of when
\* it is not.
pauseControlPlane_WhenReady(w) ==
    LET externalEtcd == w.objs["etcd"]
        controlPlane == w.objs["cp"]
        w1 == Emit(Emit(w, <<"get", "etcd">>),
                   <<"cpReadEtcdReady", BoolName(IsReady(externalEtcd))>>)
        paused == [controlPlane EXCEPT !.annotations = {<<PausedAnnotation, "true">>}]
        w2 == Emit(Emit([w1 EXCEPT !.objs["cp"] = paused], <<"get", "cp">>),
                   <<"pause", "cp">>)
    IN  IF ~w.cluster.managedExternalEtcdRef THEN [w |-> w, done |-> FALSE, res |-> Ok]
        ELSE IF ~externalEtcd.exists THEN [w |-> w, done |-> TRUE, res |-> RequeueAfter30]
        ELSE IF ~IsReady(externalEtcd) THEN [w |-> w1, done |-> FALSE, res |-> Ok]
        ELSE IF ~controlPlane.exists THEN [w |-> w1, done |-> TRUE, res |-> RequeueAfter30]
        ELSE [w |-> w2, done |-> FALSE, res |-> Ok]

\* pauseControlPlane leaving the control plane alone while the Cluster itself
\* is paused.
pauseControlPlane_UnlessClusterPaused(w) ==
    LET externalEtcd == w.objs["etcd"]
        controlPlane == w.objs["cp"]
        w1 == Emit(Emit(w, <<"get", "etcd">>),
                   <<"cpReadEtcdReady", BoolName(IsReady(externalEtcd))>>)
        paused == [controlPlane EXCEPT !.annotations = {<<PausedAnnotation, "true">>}]
        w2 == Emit(Emit([w1 EXCEPT !.objs["cp"] = paused], <<"get", "cp">>),
                   <<"pause", "cp">>)
    IN  IF ~w.cluster.managedExternalEtcdRef THEN [w |-> w, done |-> FALSE, res |-> Ok]
        ELSE IF w.cluster.paused THEN [w |-> w, done |-> FALSE, res |-> Ok]
        ELSE IF ~externalEtcd.exists THEN [w |-> w, done |-> TRUE, res |-> RequeueAfter30]
        ELSE IF IsReady(externalEtcd) THEN [w |-> w1, done |-> FALSE, res |-> Ok]
        ELSE IF ~controlPlane.exists THEN [w |-> w1, done |-> TRUE, res |-> RequeueAfter30]
        ELSE [w |-> w2, done |-> FALSE, res |-> Ok]

\* pauseControlPlane deciding by the readiness that reconcileEtcdCluster
\* recorded in the Cluster instead of by its own read of the etcd object.
pauseControlPlane_ByRecordedReadiness(w) ==
    LET externalEtcd == w.objs["etcd"]
        controlPlane == w.objs["cp"]
        w1 == Emit(Emit(w, <<"get", "etcd">>),
                   <<"cpReadEtcdReady", BoolName(IsReady(externalEtcd))>>)
        paused == [controlPlane EXCEPT !.annotations = {<<PausedAnnotation, "true">>}]
        w2 == Emit(Emit([w1 EXCEPT !.objs["cp"] = paused], <<"get", "cp">>),
                   <<"pause", "cp">>)
    IN  IF ~w.cluster.managedExternalEtcdRef THEN [w |-> w, done |-> FALSE, res |-> Ok]
        ELSE IF ~externalEtcd.exists THEN [w |-> w, done |-> TRUE, res |-> RequeueAfter30]
        ELSE IF w.cluster.managedExternalEtcdReady THEN [w |-> w1, done |-> FALSE, res |-> Ok]
        ELSE IF ~controlPlane.exists THEN [w |-> w1, done |-> TRUE, res |-> RequeueAfter30]
        ELSE [w |-> w2, done |-> FALSE, res |-> Ok]

\* The part of reconcileControlPlane that pauses the control plane while the
\* managed external etcd is not ready: [w, done, res]; done when it returned.
pauseControlPlane(w) ==
    LET externalEtcd == w.objs["etcd"]
        controlPlane == w.objs["cp"]
        w1 == Emit(Emit(w, <<"get", "etcd">>),
                   <<"cpReadEtcdReady", BoolName(IsReady(externalEtcd))>>)
        paused == [controlPlane EXCEPT !.annotations = {<<PausedAnnotation, "true">>}]
        w2 == Emit(Emit([w1 EXCEPT !.objs["cp"] = paused], <<"get", "cp">>),
                   <<"pause", "cp">>)
    IN  IF ~w.cluster.managedExternalEtcdRef THEN [w |-> w, done |-> FALSE, res |-> Ok]
        ELSE IF ~externalEtcd.exists THEN [w |-> w, done |-> TRUE, res |-> RequeueAfter30]
        ELSE IF IsReady(externalEtcd) THEN [w |-> w1, done |-> FALSE, res |-> Ok]
        ELSE IF ~controlPlane.exists THEN [w |-> w1, done |-> TRUE, res |-> RequeueAfter30]
        ELSE [w |-> w2, done |-> FALSE, res |-> Ok]

\* The ControlPlaneInitialized condition evaluated on every reconcile.
controlPlaneInitialized_NoLatch(c, controlPlaneConfig) ==
    IF IsInitialized(controlPlaneConfig)
    THEN MarkTrue(c, ControlPlaneInitializedCondition)
    ELSE MarkFalse(c, ControlPlaneInitializedCondition,
                   WaitingForControlPlaneProviderInitializedReason, "Info")

\* The ControlPlaneInitialized condition: evaluated only while it is not True.
controlPlaneInitialized(c, controlPlaneConfig) ==
    IF IsTrue(c, ControlPlaneInitializedCondition) THEN c
    ELSE IF IsInitialized(controlPlaneConfig)
    THEN MarkTrue(c, ControlPlaneInitializedCondition)
    ELSE MarkFalse(c, ControlPlaneInitializedCondition,
                   WaitingForControlPlaneProviderInitializedReason, "Info")

\* reconcileControlPlane reconciles the Spec.ControlPlaneRef object.
reconcileControlPlane(w) ==
    IF ~w.cluster.controlPlaneRef THEN Ret(w, Ok) ELSE
    LET pre == pauseControlPlane(w)
        ext == reconcileExternal(pre.w, "cp")
        controlPlaneConfig == ext.result
        ready == IsReady(controlPlaneConfig)
        c1 == [ext.w.cluster EXCEPT !.controlPlaneReady = ready]
        c2 == SetMirror(c1, ControlPlaneReadyCondition, controlPlaneConfig, ready,
                        WaitingForControlPlaneFallbackReason)
        c3 == controlPlaneInitialized(c2, controlPlaneConfig)
    IN  IF pre.done THEN Ret(pre.w, pre.res)
        ELSE IF ext.err THEN Ret(ext.w, Failed(FALSE))
        ELSE IF ext.requeueAfter > 0 THEN Ret(ext.w, RequeueAfter30)
        ELSE IF ext.paused THEN Ret(ext.w, Ok)
        ELSE IF controlPlaneConfig.deletionTimestamp THEN Ret(ext.w, Ok)
        ELSE Ret([ext.w EXCEPT !.cluster = c3], Ok)

\* resumeControlPlane resuming whatever the readiness it is handed.
resumeControlPlane_AnyReadiness(w, ready) ==
    LET controlPlane == w.objs["cp"]
        resumed == [controlPlane EXCEPT
                       !.annotations = {a \in @ : a[1] # PausedAnnotation}]
        w0 == Emit(w, <<"get", "cp">>)
        w1 == Emit([w0 EXCEPT !.objs["cp"] = resumed], <<"resume", "cp">>)
    IN  IF ~w.cluster.controlPlaneRef THEN [w |-> w, done |-> TRUE, res |-> Panic]
        ELSE IF ~controlPlane.exists THEN [w |-> w, done |-> TRUE, res |-> RequeueAfter30]
        ELSE IF HasPausedAnnotation(controlPlane) THEN [w |-> w1, done |-> FALSE, res |-> Ok]
        ELSE [w |-> w0, done |-> FALSE, res |-> Ok]

\* resumeControlPlane fetching the control plane and leaving its paused
\* annotation in place.
resumeControlPlane_GetOnly(w, ready) ==
    LET controlPlane == w.objs["cp"]
        w0 == Emit(w, <<"get", "cp">>)
    IN  IF ~ready THEN [w |-> w, done |-> FALSE, res |-> Ok]
        ELSE IF ~w.cluster.controlPlaneRef THEN [w |-> w, done |-> TRUE, res |-> Panic]
        ELSE IF ~controlPlane.exists THEN [w |-> w, done |-> TRUE, res |-> RequeueAfter30]
        ELSE [w |-> w0, done |-> FALSE, res |-> Ok]

\* The part of reconcileEtcdCluster that resumes the control plane once the
\* etcd cluster is ready: [w, done, res]; done when it returned.
resumeControlPlane(w, ready) ==
    LET controlPlane == w.objs["cp"]
        resumed == [controlPlane EXCEPT
                       !.annotations = {a \in @ : a[1] # PausedAnnotation}]
        w0 == Emit(w, <<"get", "cp">>)
        w1 == Emit([w0 EXCEPT !.objs["cp"] = resumed], <<"resume", "cp">>)
    IN  IF ~ready THEN [w |-> w, done |-> FALSE, res |-> Ok]
        ELSE IF ~w.cluster.controlPlaneRef THEN [w |-> w, done |-> TRUE, res |-> Panic]
        ELSE IF ~controlPlane.exists THEN [w |-> w, done |-> TRUE, res |-> RequeueAfter30]
        ELSE IF HasPausedAnnotation(controlPlane) THEN [w |-> w1, done |-> FALSE, res |-> Ok]
        ELSE [w |-> w0, done |-> FALSE, res |-> Ok]

\* The ManagedEtcdInitialized condition and status flag inferred from the
\* readiness of the etcd cluster instead of its status.initialized.
etcdInitialized_FromReady(c, etcdPlaneConfig) ==
    IF IsTrue(c, ManagedExternalEtcdClusterInitializedCondition) THEN c
    ELSE IF IsReady(etcdPlaneConfig)
    THEN MarkTrue([c EXCEPT !.managedExternalEtcdInitialized = TRUE],
                  ManagedExternalEtcdClusterInitializedCondition)
    ELSE MarkFalse(c, ManagedExternalEtcdClusterInitializedCondition,
                   WaitingForEtcdClusterInitializedReason, "Info")

\* The ManagedEtcdInitialized condition and status flag mirrored from the etcd
\* cluster's status.initialized on every reconcile.
etcdInitialized_Mirrored(c, etcdPlaneConfig) ==
    IF IsInitialized(etcdPlaneConfig)
    THEN MarkTrue([c EXCEPT !.managedExternalEtcdInitialized = TRUE],
                  ManagedExternalEtcdClusterInitializedCondition)
    ELSE MarkFalse([c EXCEPT !.managedExternalEtcdInitialized = FALSE],
                   ManagedExternalEtcdClusterInitializedCondition,
                   WaitingForEtcdClusterInitializedReason, "Info")

\* The ManagedEtcdInitialized condition and status flag: evaluated only while
\* the condition is not True.
etcdInitialized(c, etcdPlaneConfig) ==
    IF IsTrue(c, ManagedExternalEtcdClusterInitializedCondition) THEN c
    ELSE IF IsInitialized(etcdPlaneConfig)
    THEN MarkTrue([c EXCEPT !.managedExternalEtcdInitialized = TRUE],
                  ManagedExternalEtcdClusterInitializedCondition)
    ELSE MarkFalse(c, ManagedExternalEtcdClusterInitializedCondition,
                   WaitingForEtcdClusterInitializedReason, "Info")

\* reconcileEtcdCluster reconciles the Spec.ManagedExternalEtcdRef object.
reconcileEtcdCluster(w) ==
    IF ~w.cluster.managedExternalEtcdRef THEN Ret(w, Ok) ELSE
    LET ext == reconcileExternal(w, "etcd")
        etcdPlaneConfig == ext.result
        ready == IsReady(etcdPlaneConfig)
        w1 == Emit([ext.w EXCEPT !.cluster.managedExternalEtcdReady = ready],
                   <<"etcdReadReady", BoolName(ready)>>)
        post == resumeControlPlane(w1, ready)
        c2 == SetMirror(post.w.cluster, ManagedExternalEtcdClusterReadyCondition,
                        etcdPlaneConfig, ready, WaitingForEtcdClusterInitializedReason)
        c3 == etcdInitialized(c2, etcdPlaneConfig)
    IN  IF ext.err THEN Ret(ext.w, Failed(FALSE))
        ELSE IF ext.requeueAfter > 0 THEN Ret(ext.w, RequeueAfter30)
        ELSE IF ext.paused THEN Ret(ext.w, Ok)
        ELSE IF etcdPlaneConfig.deletionTimestamp THEN Ret(ext.w, Ok)
        ELSE IF post.done THEN Ret(post.w, post.res)
        ELSE Ret([post.w EXCEPT !.cluster = c3], Ok)

\* reconcileKubeconfig without the check of Spec.ControlPlaneRef.
reconcileKubeconfig_NoControlPlaneRefCheck(w) ==
    IF ~IsValid(w.cluster.controlPlaneEndpoint) THEN Ret(w, Ok)
    ELSE IF w.secrets.kubeconfig THEN Ret(w, Ok)
    ELSE IF ~w.secrets.ca THEN Ret(w, RequeueAfter30)
    ELSE Ret(Emit([w EXCEPT !.secrets.kubeconfig = TRUE], <<"create", "kubeconfig">>), Ok)

\* reconcileKubeconfig returning an empty result when the cluster CA secret
\* is missing.
reconcileKubeconfig_CAMissingIgnored(w) ==
    IF ~IsValid(w.cluster.controlPlaneEndpoint) THEN Ret(w, Ok)
    ELSE IF w.cluster.controlPlaneRef THEN Ret(w, Ok)
    ELSE IF w.secrets.kubeconfig THEN Ret(w, Ok)
    ELSE IF ~w.secrets.ca THEN Ret(w, Ok)
    ELSE Ret(Emit([w EXCEPT !.secrets.kubeconfig = TRUE], <<"create", "kubeconfig">>), Ok)

\* reconcileKubeconfig: mint the kubeconfig secret when no control-plane
\* provider manages it.
reconcileKubeconfig(w) ==
    IF ~IsValid(w.cluster.controlPlaneEndpoint) THEN Ret(w, Ok)
    ELSE IF w.cluster.controlPlaneRef THEN Ret(w, Ok)
    ELSE IF w.secrets.kubeconfig THEN Ret(w, Ok)
    ELSE IF ~w.secrets.ca THEN Ret(w, RequeueAfter30)
    ELSE Ret(Emit([w EXCEPT !.secrets.kubeconfig = TRUE], <<"create", "kubeconfig">>), Ok)

\* The lower non-zero requeue of two results (util.LowestNonZeroResult).
LowestNonZeroResult(a, b) ==
    [Ok EXCEPT !.requeueAfter =
                   IF a.requeueAfter = 0 THEN b.requeueAfter
                   ELSE IF b.requeueAfter = 0 THEN a.requeueAfter
                   ELSE IF a.requeueAfter < b.requeueAfter THEN a.requeueAfter
                   ELSE b.requeueAfter,
               !.requeue = a.requeue \/ b.requeue]

\* One more sub-reconciler after `prev`, unless `prev` returned an error.
Then(prev, next) ==
    IF prev.res.err THEN prev
    ELSE IF next.res.err THEN next
    ELSE Ret(next.w, LowestNonZeroResult(prev.res, next.res))

\* The sub-reconcilers in their fixed order: infrastructure, etcd, control
\* plane, kubeconfig; the first error ends the reconcile.  (Each result is
\* bound as the one element of a set, so that it is computed once.)
reconcile(w) ==
    CHOOSE r4 \in
        {Then(r3, reconcileKubeconfig(r3.w)) : r3 \in
            {Then(r2, reconcileControlPlane(r2.w)) : r2 \in
                {Then(r1, reconcileEtcdCluster(r1.w)) : r1 \in
                    {reconcileInfrastructure(w)}}}} : TRUE

World == [cluster |-> cluster, objs |-> objs, watches |-> watches,
          secrets |-> secrets, events |-> {}]

\* The record `last` holds after a step of the environment.
EnvStep == [op |-> "env", res |-> Ok, events |-> {}, again |-> FALSE]

\* The result asks for the Cluster to be reconciled again: an error (rate
\* limited retry), Requeue, or RequeueAfter.
Requeues(res) == res.err \/ res.requeue \/ res.requeueAfter > 0

\* The change of object k from `old` to `new` reaches the work-queue: the
\* external tracker watches the kind, and EnqueueRequestForOwner finds the
\* Cluster among the owners of the old or of the new object.
Delivered(ws, k, old, new) ==
    /\ k \in ws
    /\ old # new
    /\ old.ownerRef = "cluster" \/ new.ownerRef = "cluster"

\* No reconcile is in progress.
Idle ==
    [pc |-> "idle", cluster |-> FreshCluster(FALSE, FALSE, FALSE, NoEndpoint),
     res |-> Ok, events |-> {}]

----------------------------------------------------------------------------
\* The reconciler.

\* Reconcile: the sub-reconcilers, then the phase and the patch of the
\* Cluster; on an error the Cluster is not patched.  Writes to the provider
\* objects were sent before the error and stay.
Reconcile ==
    /\ queued
    /\ \E r \in {reconcile(World)} :
        /\ cluster' = IF r.res.err THEN cluster ELSE reconcilePhase(r.w.cluster)
        /\ objs' = r.w.objs
        /\ watches' = r.w.watches
        /\ secrets' = r.w.secrets
        /\ queued' = \/ Requeues(r.res)
                     \/ cluster' # cluster
                     \/ \E k \in Kinds : Delivered(watches', k, objs[k], objs'[k])
        /\ last' = [op |-> "reconcile", res |-> r.res, events |-> r.w.events,
                    again |-> last.op = "reconcile"]
        /\ UNCHANGED <<envSteps, listing, run>>

\* The controller's periodic resync (or its restart) puts the Cluster back in
\* the work-queue.
Resync ==
    /\ ~queued
    /\ queued' = TRUE
    /\ UNCHANGED <<cluster, objs, watches, secrets, last, envSteps, listing, run>>

----------------------------------------------------------------------------
\* The environment: providers and users writing to the API server.

EnvAllowed == envSteps < MaxEnvSteps

\* The environment writes object k and nothing else.
EnvWrite(k, o) ==
    /\ EnvAllowed
    /\ o # objs[k]
    /\ objs' = [objs EXCEPT ![k] = o]
    /\ queued' = (queued \/ Delivered(watches, k, objs[k], o))
    /\ envSteps' = envSteps + 1
    /\ last' = EnvStep
    /\ UNCHANGED <<cluster, watches, secrets, listing, run>>

\* The environment writes the Cluster and nothing else.
EnvWriteCluster(c) ==
    /\ EnvAllowed
    /\ c # cluster
    /\ cluster' = c
    /\ queued' = TRUE
    /\ envSteps' = envSteps + 1
    /\ last' = EnvStep
    /\ UNCHANGED <<objs, watches, secrets, listing, run>>

Live(k) == HasRef(cluster, k) /\ objs[k].exists

\* Higher-level tooling creates the object a reference names; it may already
\* be controlled by another owner.
CreateObj(k) ==
    /\ HasRef(cluster, k) /\ ~objs[k].exists
    /\ \E owner \in {"none", "other"} :
           EnvWrite(k, [FreshObj EXCEPT !.ownerRef = owner])

\* The object is gone from the API server.
RemoveObj(k) == Live(k) /\ EnvWrite(k, NoObj)

\* The object is marked for deletion.
DeleteObj(k) == Live(k) /\ EnvWrite(k, [objs[k] EXCEPT !.deletionTimestamp = TRUE])

\* The provider reports status.ready.
SetReady(k) == Live(k) /\ EnvWrite(k, [objs[k] EXCEPT !.ready = ~@])

\* The provider reports status.initialized.
SetInitialized(k) ==
    /\ Live(k) /\ k # "infra"
    /\ EnvWrite(k, [objs[k] EXCEPT !.initialized = ~@])

\* The provider reports, or withdraws, a failure.
SetFailure(k) ==
    /\ Live(k)
    /\ \E r \in {"", ReasonOf(k)}, m \in {"", MessageOf(k)} :
           EnvWrite(k, [objs[k] EXCEPT !.failureReason = r, !.failureMessage = m])

\* The provider sets its own Ready condition.
SetReadyCondition(k) ==
    /\ Live(k)
    /\ \E s \in {"Absent", "True", "False"} :
           EnvWrite(k, [objs[k] EXCEPT !.readyCondition = s])

\* The infrastructure provider publishes spec.controlPlaneEndpoint.
SetEndpoint ==
    /\ Live("infra")
    /\ \E ep \in {ValidEndpoint, HostOnlyEndpoint} :
           EnvWrite("infra",
                    [objs["infra"] EXCEPT !.endpoint = [present |-> TRUE, value |-> ep]])

\* The infrastructure provider publishes status.failureDomains.
SetFailureDomains ==
    /\ Live("infra")
    /\ \E fd \in {"present", "malformed"} :
           EnvWrite("infra", [objs["infra"] EXCEPT !.failureDomains = fd])

\* A user adds or removes an annotation of the object.
Annotate(k) ==
    /\ Live(k)
    /\ \E a \in {<<PausedAnnotation, "true">>, <<OtherAnnotation, "x">>} :
           EnvWrite(k,
                    [objs[k] EXCEPT !.annotations =
                        IF a \in @ THEN @ \ {a} ELSE @ \cup {a}])

\* A user pauses or resumes the Cluster.
PauseCluster == EnvWriteCluster([cluster EXCEPT !.paused = ~@])

\* A user deletes the Cluster: the deletionTimestamp is set and stays.
DeleteCluster ==
    /\ ~cluster.deletionTimestamp
    /\ EnvWriteCluster([cluster EXCEPT !.deletionTimestamp = TRUE])

\* A user removes spec.infrastructureRef.
UnsetInfrastructureRef ==
    /\ cluster.infrastructureRef
    /\ EnvWriteCluster([cluster EXCEPT !.infrastructureRef = FALSE])

\* A user clears the failure fields of the Cluster's status.
ClearFailure ==
    EnvWriteCluster([cluster EXCEPT !.failureReason = "", !.failureMessage = <<>>])

\* The cluster CA secret appears.
CreateCA ==
    /\ EnvAllowed /\ ~secrets.ca
    /\ secrets' = [secrets EXCEPT !.ca = TRUE]
    /\ envSteps' = envSteps + 1
    /\ last' = EnvStep
    /\ UNCHANGED <<cluster, objs, watches, queued, listing, run>>

Env ==
    \/ \E k \in Kinds :
          \/ CreateObj(k)
          \/ RemoveObj(k)
          \/ DeleteObj(k)
          \/ SetReady(k)
          \/ SetInitialized(k)
          \/ SetFailure(k)
          \/ SetReadyCondition(k)
          \/ Annotate(k)
    \/ SetEndpoint
    \/ SetFailureDomains
    \/ PauseCluster
    \/ DeleteCluster
    \/ UnsetInfrastructureRef
    \/ ClearFailure
    \/ CreateCA

----------------------------------------------------------------------------
\* The resource enumerator (ListResources) and the API server it reads.

\* Attempts of one retried read before it gives up.
ReadBackoffSteps == 3

ProviderLabelName == "cluster.x-k8s.io/provider"
ClusterctlCoreLabelName == "clusterctl.cluster.x-k8s.io/core"
ClusterctlCoreLabelCertManagerValue == "cert-manager"

\* A label map is a set of <<key, value>> pairs with distinct keys.
HasLabel(labels, key) == \E l \in labels : l[1] = key

LabelValue(labels, key) == (CHOOSE l \in labels : l[1] = key)[2]

\* client.MatchingLabels: the object carries every pair of the selector.
MatchingLabels(selector, labels) == selector \subseteq labels

\* A groupVersion is kept as its "/"-separated parts: <<"v1">> is the legacy
\* group, <<"apps", "v1">> is apps/v1.
GroupVersionString(gv) ==
    IF Len(gv) = 1 THEN gv[1] ELSE gv[1] \o "/" \o gv[2]

\* schema.ParseGroupVersion: no part or one part is a version of the legacy
\* group, two parts are group and version, more is an error.
ParseGroupVersion(gv) ==
    IF Len(gv) = 0 THEN [ok |-> TRUE, group |-> "", version |-> ""]
    ELSE IF Len(gv) = 1 THEN [ok |-> TRUE, group |-> "", version |-> gv[1]]
    ELSE IF Len(gv) = 2 THEN [ok |-> TRUE, group |-> gv[1], version |-> gv[2]]
    ELSE [ok |-> FALSE, group |-> "", version |-> ""]

\* metav1.GroupVersionKind.String().
GroupVersionKindString(group, version, kind) ==
    group \o "/" \o version \o ", Kind=" \o kind

AllVerbs == {"create", "delete", "get", "list", "patch", "update", "watch"}

\* The CRDs of the API server; provider[kind] is the value of the CRD's
\* provider label, "" when it has none.
CRDKinds == {"AWSCluster", "Certificate"}

ProviderValues == {"", "infrastructure-aws", "infrastructure-azure"}

CRDLabels(value) ==
    IF value = "" THEN {} ELSE {<<ProviderLabelName, value>>}

CRDList(provider) ==
    <<[group |-> "infrastructure.cluster.x-k8s.io", kind |-> "AWSCluster",
       versions |-> <<"v1alpha3", "v1alpha4">>,
       labels |-> CRDLabels(provider["AWSCluster"])],
      [group |-> "cert-manager.io", kind |-> "Certificate",
       versions |-> <<"v1">>,
       labels |-> CRDLabels(provider["Certificate"])]>>

\* The versions the server may prefer for the AWSCluster group.
PreferredVersions == {"v1alpha3", "v1alpha4"}

\* Discovery's preferred resources: one groupVersion per group.
ServerPreferredResources(preferred) ==
    <<[groupVersion |-> <<"v1">>,
       APIResources |-> <<[name |-> "componentstatuses", kind |-> "ComponentStatus",
                           namespaced |-> FALSE, verbs |-> {"get", "list"}]>>],
      [groupVersion |-> <<"apps", "v1">>,
       APIResources |-> <<[name |-> "deployments", kind |-> "Deployment",
                           namespaced |-> TRUE, verbs |-> AllVerbs]>>],
      [groupVersion |-> <<"extensions", "v1beta1">>,
       APIResources |-> <<[name |-> "deployments", kind |-> "Deployment",
                           namespaced |-> TRUE, verbs |-> AllVerbs]>>],
      [groupVersion |-> <<"rbac.authorization.k8s.io", "v1">>,
       APIResources |-> <<[name |-> "clusterroles", kind |-> "ClusterRole",
                           namespaced |-> FALSE, verbs |-> AllVerbs]>>],
      [groupVersion |-> <<"infrastructure.cluster.x-k8s.io", preferred>>,
       APIResources |-> <<[name |-> "awsclusters", kind |-> "AWSCluster",
                           namespaced |-> TRUE, verbs |-> AllVerbs]>>],
      [groupVersion |-> <<"cert-manager.io", "v1">>,
       APIResources |-> <<[name |-> "certificates", kind |-> "Certificate",
                           namespaced |-> TRUE, verbs |-> AllVerbs]>>]>>

\* The objects the server stores: in every namespace (and once for a
\* cluster-scoped kind, namespace "") one object of each component.
ServerNamespaces == {"ns1", "ns2"}

ComponentNames == <<"capa", "cert-manager", "inventory">>

ComponentLabels(name) ==
    IF name = "capa"
    THEN {<<ProviderLabelName, "infrastructure-aws">>, <<"clusterctl.cluster.x-k8s.io", "">>}
    ELSE IF name = "cert-manager"
    THEN {<<ClusterctlCoreLabelName, ClusterctlCoreLabelCertManagerValue>>}
    ELSE {<<ClusterctlCoreLabelName, "inventory">>}

\* What the server stores of one kind in one namespace, in name order, as
\* read through groupVersion gv.
Stored(gv, kind, namespace) ==
    [i \in 1..Len(ComponentNames) |->
        [apiVersion |-> gv, kind |-> kind, namespace |-> namespace,
         name |-> ComponentNames[i], labels |-> ComponentLabels(ComponentNames[i])]]

\* The selectors and namespace lists ListResources is called with.
LabelChoices ==
    {{<<ProviderLabelName, "infrastructure-aws">>},
     {<<ClusterctlCoreLabelName, ClusterctlCoreLabelCertManagerValue>>},
     {<<ClusterctlCoreLabelName, "inventory">>}}

NamespaceChoices == {<<>>, <<"ns1">>, <<"ns1", "ns2">>}

\* The calls to the API server, and the fault of one of them: the first
\* `fails` attempts of the call fail with `kind`, later attempts succeed.
DiscoveryCall == <<"discovery">>

CRDListCall == <<"crds">>

ListCall(gv, kind, namespace) == <<"list", GroupVersionString(gv), kind, namespace>>

NoFault == [call |-> <<"none">>, kind |-> "ok", fails |-> 0]

Attempt(fault, call, n) ==
    IF fault.call = call /\ n <= fault.fails THEN fault.kind ELSE "ok"

\* Attempts of one retried connection; the model gives both backoffs the
\* same number of steps.
ConnectBackoffSteps == ReadBackoffSteps

\* retryWithExponentialBackoff: the operation is attempted until it succeeds
\* or the steps are used up; the last error is returned.
retryWithExponentialBackoff(steps, fault, call) ==
    IF \E n \in 1..steps : Attempt(fault, call, n) = "ok"
    THEN "ok"
    ELSE Attempt(fault, call, steps)

NewClientSetCall == <<"clientset">>

NewClientCall == <<"client">>

newClientSet(fault) ==
    retryWithExponentialBackoff(ConnectBackoffSteps, fault, NewClientSetCall)

NewClient(fault) ==
    retryWithExponentialBackoff(ConnectBackoffSteps, fault, NewClientCall)

\* A variant that excludes only the first version a CRD declares.
crdsToExclude_FirstVersion(labels, crdList) ==
    {GroupVersionKindString(crdList[i].group, crdList[i].versions[1], crdList[i].kind) :
        i \in {j \in 1..Len(crdList) :
                 \/ /\ HasLabel(labels, ClusterctlCoreLabelName)
                    /\ LabelValue(labels, ClusterctlCoreLabelName) =
                           ClusterctlCoreLabelCertManagerValue
                 \/ HasLabel(crdList[j].labels, ProviderLabelName)}}

\* The exclusion set: every version of every CRD that carries a provider
\* label, and of every CRD when the selector is cert-manager's.
crdsToExclude(labels, crdList) ==
    UNION {{GroupVersionKindString(crdList[i].group, crdList[i].versions[v], crdList[i].kind) :
               v \in 1..Len(crdList[i].versions)} :
        i \in {j \in 1..Len(crdList) :
                 \/ /\ HasLabel(labels, ClusterctlCoreLabelName)
                    /\ LabelValue(labels, ClusterctlCoreLabelName) =
                           ClusterctlCoreLabelCertManagerValue
                 \/ HasLabel(crdList[j].labels, ProviderLabelName)}}

\* discovery.FilteredBy(SupportsAllVerbs{list, delete}): each group keeps the
\* resources that support both verbs.
FilteredBy(resourceList) ==
    [g \in 1..Len(resourceList) |->
        [resourceList[g] EXCEPT !.APIResources =
            SelectSeq(@, LAMBDA r : {"list", "delete"} \subseteq r.verbs)]]

\* The resource kind exists in two api groups; this one is discarded.
IsExtensionsAlias(groupVersion, name) ==
    /\ GroupVersionString(groupVersion) = "extensions/v1beta1"
    /\ name \in {"daemonsets", "deployments", "replicasets", "networkpolicies", "ingresses"}

ListFailed(err) == [items |-> <<>>, err |-> err]

\* A variant for which NotFound is an error like any other.
listObjByGVK_NotFoundFatal(in, groupVersion, kind, namespace) ==
    LET outcome == Attempt(in.fault, ListCall(groupVersion, kind, namespace), 1)
    IN  IF outcome = "ok"
        THEN [items |-> SelectSeq(Stored(groupVersion, kind, namespace),
                            LAMBDA o : MatchingLabels(in.labels, o.labels)),
              err |-> ""]
        ELSE ListFailed("failed to list objects")

\* listObjByGVK: one List call, attempted once; NotFound yields the empty
\* list, any other error is returned.
listObjByGVK(in, groupVersion, kind, namespace) ==
    LET outcome == Attempt(in.fault, ListCall(groupVersion, kind, namespace), 1)
    IN  IF outcome = "ok"
        THEN [items |-> SelectSeq(Stored(groupVersion, kind, namespace),
                            LAMBDA o : MatchingLabels(in.labels, o.labels)),
              err |-> ""]
        ELSE IF outcome = "NotFound"
        THEN [items |-> <<>>, err |-> ""]
        ELSE ListFailed("failed to list objects")

\* The object instances of one resource kind: in each of the namespaces when
\* it is namespaced, cluster-wide otherwise; the first error ends the listing.
RECURSIVE listNamespaces(_, _, _, _, _)
listNamespaces(in, groupVersion, kind, namespaces, items) ==
    IF namespaces = <<>> THEN [items |-> items, err |-> ""]
    ELSE LET objList == listObjByGVK(in, groupVersion, kind, Head(namespaces))
         IN  IF objList.err # "" THEN ListFailed(objList.err)
              ELSE listNamespaces(in, groupVersion, kind, Tail(namespaces),
                                  items \o objList.items)

listKind(in, groupVersion, resourceKind) ==
    IF resourceKind.namespaced
    THEN listNamespaces(in, groupVersion, resourceKind.kind, in.namespaces, <<>>)
    ELSE listObjByGVK(in, groupVersion, resourceKind.kind, "")

\* The resource kinds of the resource list, each with its groupVersion, in
\* the order the two loops visit them.
RECURSIVE ResourceKinds(_)
ResourceKinds(resourceList) ==
    IF resourceList = <<>> THEN <<>>
    ELSE [i \in 1..Len(Head(resourceList).APIResources) |->
             [groupVersion |-> Head(resourceList).groupVersion,
              resourceKind |-> Head(resourceList).APIResources[i]]]
         \o ResourceKinds(Tail(resourceList))

\* The loop over the resource kinds: aliases and excluded kinds are skipped,
\* the objects of the others are appended; an error returns no list.
RECURSIVE listResourceKinds(_, _, _, _)
listResourceKinds(in, excluded, todo, ret) ==
    IF todo = <<>> THEN [ret |-> ret, err |-> ""]
    ELSE LET groupVersion == Head(todo).groupVersion
             resourceKind == Head(todo).resourceKind
             gv == ParseGroupVersion(groupVersion)
             objList == listKind(in, groupVersion, resourceKind)
         IN  IF IsExtensionsAlias(groupVersion, resourceKind.name)
             THEN listResourceKinds(in, excluded, Tail(todo), ret)
             ELSE IF ~gv.ok
             THEN [ret |-> <<>>, err |-> "failed to parse GroupVersion"]
             ELSE IF GroupVersionKindString(gv.group, gv.version, resourceKind.kind)
                         \in excluded
             THEN listResourceKinds(in, excluded, Tail(todo), ret)
             ELSE IF objList.err # ""
             THEN [ret |-> <<>>, err |-> objList.err]
             ELSE listResourceKinds(in, excluded, Tail(todo), ret \o objList.items)

\* ListResources(labels, namespaces...) against the server of `in`.
ListResources(in) ==
    IF newClientSet(in.fault) # "ok"
    THEN [ret |-> <<>>, err |-> "failed to create the client-go client"]
    ELSE IF NewClient(in.fault) # "ok"
    THEN [ret |-> <<>>, err |-> "failed to connect to the management cluster"]
    ELSE IF retryWithExponentialBackoff(ReadBackoffSteps, in.fault, DiscoveryCall) # "ok"
    THEN [ret |-> <<>>, err |-> "failed to list api resources"]
    ELSE IF retryWithExponentialBackoff(ReadBackoffSteps, in.fault, CRDListCall) # "ok"
    THEN [ret |-> <<>>, err |-> "failed to list CRDs"]
    ELSE listResourceKinds(in,
             crdsToExclude(in.labels, CRDList(in.provider)),
             ResourceKinds(FilteredBy(ServerPreferredResources(in.preferred))),
             <<>>)

\* No call of ListResources: the state of the variable while the reconciler
\* runs.
NoListing ==
    [labels |-> {}, namespaces |-> <<>>, provider |-> [k \in CRDKinds |-> ""],
     preferred |-> "v1alpha3", fault |-> NoFault,
     done |-> FALSE, ret |-> <<>>, err |-> ""]

----------------------------------------------------------------------------
\* The specification.

\* The references a modelled Cluster is created with: any one or two of the
\* three (each sub-reconciler alone, and each pair in the fixed order).
RefChoices ==
    {r \in [infra : BOOLEAN, cp : BOOLEAN, etcd : BOOLEAN] : ~(r.infra /\ r.cp /\ r.etcd)}

\* A Cluster as created, with empty status and no endpoint; each referenced
\* object is absent or freshly created; no secret exists yet.
Init ==
    /\ \E r \in RefChoices : cluster = FreshCluster(r.infra, r.cp, r.etcd, NoEndpoint)
    /\ objs \in [Kinds -> {NoObj, FreshObj}]
    /\ \A k \in Kinds : objs[k].exists => HasRef(cluster, k)
    /\ watches = {}
    /\ secrets = [kubeconfig |-> FALSE, ca |-> FALSE]
    /\ queued = TRUE
    /\ last = EnvStep
    /\ envSteps = 0
    /\ listing = NoListing
    /\ run = Idle

Next == Reconcile \/ Env \/ Resync

Spec == Init /\ [][Next]_vars

\* The work-queue alone drives the reconciler: no resync, and a queued
\* Cluster is eventually reconciled.
NextQueue == Reconcile \/ Env

SpecQueue == Init /\ [][NextQueue]_vars /\ WF_vars(Reconcile)

\* Fair scheduling of reconciles: the resync keeps putting the Cluster back
\* in the work-queue and a queued Cluster is eventually reconciled.
SpecFair == Init /\ [][Next]_vars /\ WF_vars(Reconcile) /\ WF_vars(Resync)

----------------------------------------------------------------------------
\* The reconcile step by step, with writes of providers and users between its
\* sub-reconcilers: SpecSteps.

\* What a sub-reconciler of the reconcile in progress works on: the
\* reconcile's own copy of the Cluster and the objects as the API server
\* holds them now.
RunWorld == [cluster |-> run.cluster, objs |-> objs, watches |-> watches,
             secrets |-> secrets, events |-> run.events]

\* A worker takes the Cluster from the work-queue and reads it.
BeginReconcile ==
    /\ run.pc = "idle" /\ queued
    /\ run' = [pc |-> "infra", cluster |-> cluster, res |-> Ok, events |-> {}]
    /\ queued' = FALSE
    /\ UNCHANGED <<cluster, objs, watches, secrets, last, envSteps, listing>>

\* The sub-reconciler at position pc has run with outcome r: its writes are
\* in the API server, its result is merged; an error ends the reconcile.
SubReconcile(pc, r, next) ==
    /\ run.pc = pc
    /\ objs' = r.w.objs
    /\ watches' = r.w.watches
    /\ secrets' = r.w.secrets
    /\ run' = [pc |-> IF r.res.err THEN "end" ELSE next,
               cluster |-> r.w.cluster,
               res |-> IF r.res.err THEN r.res
                       ELSE LowestNonZeroResult(run.res, r.res),
               events |-> r.w.events]
    /\ queued' = (queued \/ \E k \in Kinds : Delivered(watches', k, objs[k], objs'[k]))
    /\ UNCHANGED <<cluster, last, envSteps, listing>>

StepInfrastructure ==
    \E r \in {reconcileInfrastructure(RunWorld)} : SubReconcile("infra", r, "etcd")

StepEtcdCluster ==
    \E r \in {reconcileEtcdCluster(RunWorld)} : SubReconcile("etcd", r, "cp")

StepControlPlane ==
    \E r \in {reconcileControlPlane(RunWorld)} : SubReconcile("cp", r, "kubeconfig")

StepKubeconfig ==
    \E r \in {reconcileKubeconfig(RunWorld)} : SubReconcile("kubeconfig", r, "end")

\* The reconcile ends: the phase is computed and the Cluster patched, unless
\* a sub-reconciler returned an error.
EndReconcile ==
    /\ run.pc = "end"
    /\ cluster' = IF run.res.err THEN cluster ELSE reconcilePhase(run.cluster)
    /\ queued' = (queued \/ Requeues(run.res) \/ cluster' # cluster)
    /\ last' = [op |-> "reconcile", res |-> run.res, events |-> run.events,
                again |-> FALSE]
    /\ run' = Idle
    /\ UNCHANGED <<objs, watches, secrets, envSteps, listing>>

\* A provider or a user writes the etcd or the control-plane object, at any
\* point of a reconcile.
EnvBetween ==
    \E k \in {"etcd", "cp"} : CreateObj(k) \/ SetReady(k) \/ Annotate(k)

\* A Cluster with a control plane and a managed external etcd.
InitSteps ==
    /\ cluster = FreshCluster(FALSE, TRUE, TRUE, NoEndpoint)
    /\ objs \in [Kinds -> {NoObj, FreshObj}]
    /\ ~objs["infra"].exists
    /\ watches = {}
    /\ secrets = [kubeconfig |-> FALSE, ca |-> FALSE]
    /\ queued = TRUE
    /\ last = EnvStep
    /\ envSteps = 0
    /\ listing = NoListing
    /\ run = Idle

NextSteps ==
    \/ BeginReconcile
    \/ StepInfrastructure
    \/ StepEtcdCluster
    \/ StepControlPlane
    \/ StepKubeconfig
    \/ EndReconcile
    \/ EnvBetween
    \/ Resync

SpecSteps == InitSteps /\ [][NextSteps]_vars

----------------------------------------------------------------------------
\* The phase labeler alone, on every input: SpecPhase.

PhaseStrings ==
    {"", ClusterPhasePending, ClusterPhaseProvisioning, ClusterPhaseProvisioned,
     ClusterPhaseFailed, ClusterPhaseDeleting, UnknownPhase}

\* Every Cluster the labeler can be handed, in the fields it reads.
PhaseInputs ==
    {[FreshCluster(ref, FALSE, FALSE, ep) EXCEPT
         !.phase = p, !.infrastructureReady = ready, !.failureReason = fr,
         !.failureMessage = fm, !.deletionTimestamp = del] :
        ref \in BOOLEAN, ep \in Endpoints, p \in PhaseStrings, ready \in BOOLEAN,
        fr \in {"", ReasonOf("infra")},
        fm \in {<<>>, FailureMessageOf("infra", MessageOf("infra"))},
        del \in BOOLEAN}

InitPhase ==
    /\ cluster \in PhaseInputs
    /\ objs = [k \in Kinds |-> NoObj]
    /\ watches = {}
    /\ secrets = [kubeconfig |-> FALSE, ca |-> FALSE]
    /\ queued = TRUE
    /\ last = EnvStep
    /\ envSteps = 0
    /\ listing = NoListing
    /\ run = Idle

\* The labeler runs on the Cluster.
ApplyPhase ==
    /\ cluster' = reconcilePhase(cluster)
    /\ last' = [op |-> "phase", res |-> Ok, events |-> {}, again |-> FALSE]
    /\ UNCHANGED <<objs, watches, secrets, queued, envSteps, listing, run>>

SpecPhase == InitPhase /\ [][ApplyPhase]_vars

----------------------------------------------------------------------------
\* The resource enumerator alone, on every input: SpecList.

\* The List calls a server with this preferred version can receive.
ListCalls(preferred) ==
    LET kinds == ResourceKinds(ServerPreferredResources(preferred))
    IN  UNION {{ListCall(kinds[i].groupVersion, kinds[i].resourceKind.kind, ns) :
                   ns \in IF kinds[i].resourceKind.namespaced
                          THEN ServerNamespaces ELSE {""}} :
               i \in 1..Len(kinds)}

\* At most one call is faulty: it is unavailable for its first attempts, or
\* (a List call) answers NotFound.
Faults(preferred) ==
    {NoFault}
    \cup {[call |-> c, kind |-> "Unavailable", fails |-> n] :
            c \in {NewClientSetCall, NewClientCall, DiscoveryCall, CRDListCall}
                  \cup ListCalls(preferred),
            n \in 1..ReadBackoffSteps}
    \cup {[call |-> c, kind |-> "NotFound", fails |-> ReadBackoffSteps] :
            c \in ListCalls(preferred)}

ListInputs ==
    {[NoListing EXCEPT !.labels = l, !.namespaces = n, !.provider = p,
                       !.preferred = v, !.fault = f] :
        l \in LabelChoices, n \in NamespaceChoices, p \in [CRDKinds -> ProviderValues],
        v \in PreferredVersions, f \in UNION {Faults(pv) : pv \in PreferredVersions}}

InitList ==
    /\ listing \in {in \in ListInputs : in.fault \in Faults(in.preferred)}
    /\ cluster = FreshCluster(FALSE, FALSE, FALSE, NoEndpoint)
    /\ objs = [k \in Kinds |-> NoObj]
    /\ watches = {}
    /\ secrets = [kubeconfig |-> FALSE, ca |-> FALSE]
    /\ queued = FALSE
    /\ last = EnvStep
    /\ envSteps = 0
    /\ run = Idle

\* ListResources is called and returns.
CallListResources ==
    /\ ~listing.done
    /\ \E r \in {ListResources(listing)} :
        listing' = [listing EXCEPT !.done = TRUE, !.ret = r.ret, !.err = r.err]
    /\ UNCHANGED <<cluster, objs, watches, secrets, queued, last, envSteps, run>>

SpecList == InitList /\ [][CallListResources]_vars

----------------------------------------------------------------------------
\* Properties.

\* The last step was a reconcile.
Reconciled == last.op = "reconcile"

\* The last step was a reconcile that returned no error, so that the phase
\* was computed and the Cluster patched.
ReconciledOk == Reconciled /\ ~last.res.err

FailureSet(c) == c.failureReason # "" \/ c.failureMessage # <<>>

\* C1 as stated: after a reconcile that ran reconcilePhase, a Cluster that is
\* not being deleted has phase Failed if and only if failureReason or
\* failureMessage is set, and a Cluster being deleted has phase Deleting.
C1_FailedIffFailure ==
    ReconciledOk =>
        IF cluster.deletionTimestamp
        THEN cluster.phase = ClusterPhaseDeleting
        ELSE cluster.phase = ClusterPhaseFailed <=> FailureSet(cluster)

\* C1 amended: after a reconcile that ran reconcilePhase, a Cluster being
\* deleted has phase Deleting; one that is not has phase Failed if and only if
\* a failure field is set or the phase was Failed before the reconcile and no
\* clause fired (infrastructureRef unset, and not infrastructureReady with a
\* valid endpoint).
C1_FailedIffFailureOrKept ==
    [][(last'.op = "reconcile" /\ ~last'.res.err) =>
        IF cluster'.deletionTimestamp
        THEN cluster'.phase = ClusterPhaseDeleting
        ELSE cluster'.phase = ClusterPhaseFailed <=>
                \/ FailureSet(cluster')
                \/ /\ cluster.phase = ClusterPhaseFailed
                   /\ ~cluster'.infrastructureRef
                   /\ ~(cluster'.infrastructureReady
                        /\ IsValid(cluster'.controlPlaneEndpoint))]_vars

\* C1 witness: a reconcile ended in Failed with only failureMessage set.
C1_Witness ==
    /\ ReconciledOk
    /\ ~cluster.deletionTimestamp
    /\ cluster.failureReason = "" /\ cluster.failureMessage # <<>>
    /\ cluster.phase = ClusterPhaseFailed

\* C2: after a reconcile that ran reconcilePhase, the phase is Deleting if and
\* only if the deletionTimestamp is set, whatever the failure fields.
C2_DeletingIffTimestamp ==
    ReconciledOk => (cluster.phase = ClusterPhaseDeleting <=> cluster.deletionTimestamp)

\* C2 witness: a failed Cluster being deleted ended a reconcile in Deleting.
C2_Witness ==
    /\ ReconciledOk
    /\ cluster.deletionTimestamp
    /\ FailureSet(cluster)
    /\ cluster.phase = ClusterPhaseDeleting

\* The clauses of the labeler, as the specification numbers them.
ClauseFires(c, i) ==
    CASE i = 1 -> c.phase = ""
      [] i = 2 -> c.infrastructureRef
      [] i = 3 -> c.infrastructureReady /\ c.controlPlaneEndpoint.host # ""
                    /\ c.controlPlaneEndpoint.port # 0
      [] i = 4 -> c.failureReason # "" \/ c.failureMessage # <<>>
      [] i = 5 -> c.deletionTimestamp

ClausePhase(i) ==
    CASE i = 1 -> "Pending"
      [] i = 2 -> "Provisioning"
      [] i = 3 -> "Provisioned"
      [] i = 4 -> "Failed"
      [] i = 5 -> "Deleting"

\* The phase of the last clause that fires, the input phase when none does.
LastFiringClause(c) ==
    LET firing == {i \in 1..5 : ClauseFires(c, i)}
    IN  IF firing = {} THEN c.phase
        ELSE ClausePhase(CHOOSE i \in firing : \A j \in firing : j <= i)

\* C3: reconcilePhase changes the phase alone, to the phase of the last firing
\* clause (the input phase when no clause fires), and never to the empty
\* string.
C3_PhaseIsLastFiringClause ==
    [][/\ cluster'.phase = LastFiringClause(cluster)
       /\ cluster'.phase # ""
       /\ cluster' = [cluster EXCEPT !.phase = cluster'.phase]]_vars

\* C3 witness: an unknown phase string came out of the labeler unchanged.
C3_Witness == last.op = "phase" /\ cluster.phase = UnknownPhase

EarlyPhases == {ClusterPhasePending, ClusterPhaseFailed, ClusterPhaseDeleting}

\* The step is a reconcile: the Cluster was in the work-queue and the step
\* left the record of a reconcile.
ReconcileStep == queued /\ last'.op = "reconcile"

\* The step is a reconcile that returned no error.
ReconcileOkStep == ReconcileStep /\ ~last'.res.err

\* C4 as stated: after a reconcile of a Cluster whose infrastructureRef is
\* unset, the phase is Pending, Failed or Deleting, whatever came before.
C4_NoInfraRefEarlyPhase ==
    (ReconciledOk /\ ~cluster.infrastructureRef) => cluster.phase \in EarlyPhases

\* C4: a reconcile of a Cluster whose infrastructureRef is unset ends with the
\* phase Pending, Failed or Deleting when the phase before it was empty or one
\* of these three and the status does not hold infrastructureReady with a
\* valid endpoint.
C4_NoInfraRefEarlyPhaseKept ==
    [][(/\ ReconcileOkStep
        /\ ~cluster.infrastructureRef
        /\ cluster.phase \in EarlyPhases \cup {""}
        /\ ~(cluster.infrastructureReady /\ IsValid(cluster.controlPlaneEndpoint)))
       => cluster'.phase \in EarlyPhases]_vars

\* C4 witness: a reconcile of a Cluster that has a control plane reference but
\* no infrastructure reference ended with the phase Pending.
C4_Witness ==
    /\ ReconciledOk
    /\ ~cluster.infrastructureRef
    /\ cluster.controlPlaneRef
    /\ cluster.phase = ClusterPhasePending

\* C5 as stated: after a reconcile of a Cluster whose infrastructureRef is
\* unset, status.infrastructureReady is false.
C5_NoInfraRefNotReady ==
    (Reconciled /\ ~cluster.infrastructureRef) => ~cluster.infrastructureReady

\* C5: a reconcile of a Cluster whose infrastructureRef is unset leaves
\* status.infrastructureReady as it was, true included.
C5_NoInfraRefReadyUnchanged ==
    [][(ReconcileStep /\ ~cluster.infrastructureRef)
       => cluster'.infrastructureReady = cluster.infrastructureReady]_vars

\* C5 witness: a reconcile ran on a Cluster without infrastructureRef whose
\* status holds infrastructureReady from before the reference was removed.
C5_Witness ==
    /\ ReconciledOk
    /\ ~cluster.infrastructureRef
    /\ cluster.infrastructureReady

\* The step is a reconcile that wrote the control plane object without the
\* paused annotation, or one that found it paused and left it not paused.
RemovesPause ==
    /\ ReconcileStep
    /\ \/ <<"resume", "cp">> \in last'.events
       \/ /\ objs["cp"].exists
          /\ HasPausedAnnotation(objs["cp"])
          /\ ~HasPausedAnnotation(objs'["cp"])

\* C6: a reconcile removes the paused annotation from the control plane object
\* only when the etcd object exists with status.ready true and the reconcile
\* read that readiness as true, and never as false.
C6_ResumeOnlyAfterEtcdReady ==
    [][RemovesPause
       => /\ objs["etcd"].exists
          /\ IsReady(objs["etcd"])
          /\ <<"etcdReadReady", "true">> \in last'.events
          /\ <<"etcdReadReady", "false">> \notin last'.events]_vars

\* C6 witness: a reconcile removed the paused annotation from the control
\* plane object.
C6_Witness ==
    /\ Reconciled
    /\ <<"resume", "cp">> \in last.events
    /\ ~HasPausedAnnotation(objs["cp"])

\* Both references are set, the control plane object exists and the etcd
\* object exists with status.ready false.
EtcdNotReady ==
    /\ cluster.controlPlaneRef
    /\ cluster.managedExternalEtcdRef
    /\ objs["cp"].exists
    /\ objs["etcd"].exists
    /\ ~IsReady(objs["etcd"])

\* The control plane object carries paused = "true" after the step and the
\* step left status.controlPlaneReady alone.
PausedAndReadyKept ==
    /\ <<PausedAnnotation, "true">> \in objs'["cp"].annotations
    /\ cluster'.controlPlaneReady = cluster.controlPlaneReady

EtcdBecameReady ==
    /\ cluster.controlPlaneRef
    /\ cluster.managedExternalEtcdRef
    /\ objs["cp"].exists
    /\ HasPausedAnnotation(objs["cp"])
    /\ objs["etcd"].exists
    /\ IsReady(objs["etcd"])
    /\ ~objs["etcd"].deletionTimestamp
    /\ ~IsPaused(cluster, objs["etcd"])

\* The reconcile resumed the control plane and recorded the etcd readiness.
ResumedAndReady ==
    /\ ~HasPausedAnnotation(objs'["cp"])
    /\ cluster'.managedExternalEtcdReady

\* The reconcile recorded the etcd cluster as initialized.
EtcdInitializedRecorded ==
    /\ IsTrue(cluster', ManagedExternalEtcdClusterInitializedCondition)
    /\ cluster'.managedExternalEtcdInitialized

\* C8 as stated: once the etcd object is ready, the next reconcile resumes the
\* control plane, sets managedExternalEtcdReady, marks ManagedEtcdInitialized
\* True and sets managedExternalEtcdInitialized.
C8_EtcdReadyResumes ==
    [][(ReconcileOkStep /\ EtcdBecameReady)
       => (ResumedAndReady /\ EtcdInitializedRecorded)]_vars

\* C8: once the etcd object is ready, the next reconcile without error resumes
\* the control plane and sets managedExternalEtcdReady; it records the etcd
\* cluster as initialized when the etcd object's status.initialized is true,
\* and marks ManagedEtcdInitialized False when it is not and the condition was
\* not True before.
C8_EtcdReadyResumesInitializedSeparately ==
    [][(ReconcileOkStep /\ EtcdBecameReady)
       => /\ ResumedAndReady
          /\ IsInitialized(objs["etcd"]) => EtcdInitializedRecorded
          /\ (/\ ~IsInitialized(objs["etcd"])
              /\ ~IsTrue(cluster, ManagedExternalEtcdClusterInitializedCondition))
             => /\ cluster'.conditions[ManagedExternalEtcdClusterInitializedCondition].status
                      = "False"
                /\ cluster'.managedExternalEtcdInitialized
                      = cluster.managedExternalEtcdInitialized]_vars

\* C8 witness: a reconcile resumed the control plane and recorded the etcd
\* cluster as ready and initialized.
C8_Witness ==
    /\ ReconciledOk
    /\ <<"resume", "cp">> \in last.events
    /\ cluster.managedExternalEtcdReady
    /\ cluster.managedExternalEtcdInitialized
    /\ IsTrue(cluster, ManagedExternalEtcdClusterInitializedCondition)

Adopted(k) ==
    /\ objs[k].exists
    /\ objs[k].ownerRef = "cluster"
    /\ objs[k].clusterLabel = ClusterName

\* C9 as stated: every object reconcileExternal fetched in a reconcile that
\* returned no error is adopted, a paused object included.
C9_FetchedIsAdopted ==
    ReconciledOk => \A k \in Kinds : (<<"fetch", k>> \in last.events) => Adopted(k)

\* C9: every object reconcileExternal fetched in a reconcile and found neither
\* paused nor controlled by another owner carries the controller reference to
\* the Cluster and the cluster-name label after the reconcile.
C9_FetchedUnpausedIsAdopted ==
    Reconciled =>
        \A k \in Kinds :
            (/\ <<"fetch", k>> \in last.events
             /\ <<"paused", k>> \notin last.events
             /\ <<"alreadyOwned", k>> \notin last.events) => Adopted(k)

\* C9 witness: a reconcile adopted an object that is being deleted.
C9_Witness ==
    /\ Reconciled
    /\ \E k \in Kinds :
          /\ <<"patch", k>> \in last.events
          /\ objs[k].deletionTimestamp
          /\ Adopted(k)

\* C10: once the ControlPlaneInitialized condition is True, no step makes it
\* anything else.
C10_ControlPlaneInitializedLatch ==
    [][IsTrue(cluster, ControlPlaneInitializedCondition)
       => IsTrue(cluster', ControlPlaneInitializedCondition)]_vars

\* C10 witness: a reconcile handled a live control plane object that reports
\* initialized false and the condition is still True.
C10_Witness ==
    /\ ReconciledOk
    /\ <<"patch", "cp">> \in last.events
    /\ ~objs["cp"].deletionTimestamp
    /\ ~IsInitialized(objs["cp"])
    /\ IsTrue(cluster, ControlPlaneInitializedCondition)

\* C11: once status.managedExternalEtcdInitialized is true, no step (a
\* reconcile, or a change, pause, deletion or removal of the etcd object) makes
\* it false.
C11_EtcdInitializedNeverReset ==
    [][cluster.managedExternalEtcdInitialized
       => cluster'.managedExternalEtcdInitialized]_vars

\* C11 witness: a reconcile handled a live, unpaused etcd object whose
\* status.initialized went back to false, and the flag is still true.
C11_Witness ==
    /\ ReconciledOk
    /\ <<"patch", "etcd">> \in last.events
    /\ ~objs["etcd"].deletionTimestamp
    /\ ~IsInitialized(objs["etcd"])
    /\ cluster.managedExternalEtcdInitialized

\* The status of a Cluster; the model's conditions carry no lastTransitionTime.
StatusOf(c) ==
    [phase |-> c.phase,
     infrastructureReady |-> c.infrastructureReady,
     controlPlaneReady |-> c.controlPlaneReady,
     managedExternalEtcdReady |-> c.managedExternalEtcdReady,
     managedExternalEtcdInitialized |-> c.managedExternalEtcdInitialized,
     failureReason |-> c.failureReason,
     failureMessage |-> c.failureMessage,
     failureDomains |-> c.failureDomains,
     conditions |-> c.conditions]

\* C12: a reconcile that directly follows a reconcile, with no change from
\* outside between the two, leaves the status of the Cluster as the first one
\* left it.
C12_ReconcileIdempotentOnStatus ==
    [][(Reconciled /\ ReconcileStep) => StatusOf(cluster') = StatusOf(cluster)]_vars

\* C12 witness: a reconcile ran right after the reconcile that had mirrored a
\* ready infrastructure, copied its endpoint and minted the kubeconfig.
C12_Witness ==
    /\ ReconciledOk
    /\ last.again
    /\ cluster.infrastructureReady
    /\ cluster.phase = ClusterPhaseProvisioned
    /\ secrets.kubeconfig
    /\ <<"create", "kubeconfig">> \notin last.events

\* What the sub-reconciler of kind k writes in the Cluster.
KindStatus(c, k) ==
    CASE k = "infra" ->
            <<c.infrastructureReady, c.conditions[InfrastructureReadyCondition],
              c.controlPlaneEndpoint, c.failureDomains>>
      [] k = "cp" ->
            <<c.controlPlaneReady, c.conditions[ControlPlaneReadyCondition],
              c.conditions[ControlPlaneInitializedCondition]>>
      [] k = "etcd" ->
            <<c.managedExternalEtcdReady, c.managedExternalEtcdInitialized,
              c.conditions[ManagedExternalEtcdClusterReadyCondition],
              c.conditions[ManagedExternalEtcdClusterInitializedCondition]>>

\* The reconcile of this step fetched object k and found it, or the Cluster,
\* paused.  (The reconcile changes the annotations of a fetched object only
\* before it fetches it.)
FetchedPaused(k) ==
    /\ ReconcileStep
    /\ <<"fetch", k>> \in last'.events
    /\ cluster.paused \/ HasPausedAnnotation(objs'[k])

\* The step gave object k no owner reference, label, patch or watch, and took
\* nothing from it into the Cluster.
NothingMutatedFor(k) ==
    /\ objs'[k].ownerRef = objs[k].ownerRef
    /\ objs'[k].clusterLabel = objs[k].clusterLabel
    /\ <<"patch", k>> \notin last'.events
    /\ (k \in watches') = (k \in watches)
    /\ KindStatus(cluster', k) = KindStatus(cluster, k)
    /\ cluster'.failureReason = ReasonOf(k) => cluster.failureReason = ReasonOf(k)
    /\ cluster'.failureMessage = FailureMessageOf(k, MessageOf(k))
          => cluster.failureMessage = FailureMessageOf(k, MessageOf(k))

C14_NotFoundRequeues ==
    [][/\ (/\ ReconcileStep
           /\ cluster = FreshCluster(TRUE, FALSE, FALSE, NoEndpoint)
           /\ ~objs["infra"].exists)
          => /\ last'.res = RequeueAfter30
             /\ ~FailureSet(cluster')
             /\ ~cluster'.infrastructureReady
             /\ cluster'.phase = ClusterPhaseProvisioning
             /\ StatusOf(cluster') = [StatusOf(cluster) EXCEPT
                                         !.phase = ClusterPhaseProvisioning]
       /\ (/\ ReconcileStep
           /\ \E k \in Kinds : HasRef(cluster, k)
           /\ \A k \in Kinds : ~objs[k].exists)
          => /\ ~last'.res.err
             /\ last'.res.requeueAfter = RequeueSeconds]_vars

\* C14 witness: the fresh Cluster with only infrastructureRef was reconciled
\* while its infrastructure object did not exist.
C14_Witness ==
    /\ Reconciled
    /\ last.res = RequeueAfter30
    /\ last.events = {}
    /\ cluster = [FreshCluster(TRUE, FALSE, FALSE, NoEndpoint) EXCEPT
                     !.phase = ClusterPhaseProvisioning]
    /\ ~objs["infra"].exists

\* The infrastructure object is live, not paused, ready and carries a valid
\* endpoint, and the Cluster has no valid endpoint yet.
InfraReadyWithEndpoint ==
    /\ cluster.infrastructureRef
    /\ objs["infra"].exists
    /\ ~IsPaused(cluster, objs["infra"])
    /\ ~objs["infra"].deletionTimestamp
    /\ IsReady(objs["infra"])
    /\ objs["infra"].endpoint.present
    /\ IsValid(objs["infra"].endpoint.value)
    /\ ~IsValid(cluster.controlPlaneEndpoint)

\* The step recorded the infrastructure as ready with its endpoint and ended
\* in Provisioned, failure fields and deletion apart.
InfraRecorded ==
    /\ cluster'.infrastructureReady
    /\ cluster'.controlPlaneEndpoint = objs["infra"].endpoint.value
    /\ (~FailureSet(cluster') /\ ~cluster'.deletionTimestamp)
          => cluster'.phase = ClusterPhaseProvisioned

\* C15 as stated: one reconcile of a Cluster whose infrastructure object is
\* ready with a valid endpoint sets infrastructureReady, copies the endpoint,
\* sets the InfrastructureReady condition to True and ends in Provisioned.
C15_InfraReadyProvisioned ==
    [][(ReconcileOkStep /\ InfraReadyWithEndpoint)
       => /\ InfraRecorded
          /\ IsTrue(cluster', InfrastructureReadyCondition)]_vars

\* C15: one reconcile without error of a Cluster whose infrastructure object
\* is ready with a valid endpoint sets infrastructureReady, copies the
\* endpoint and ends in Provisioned; the InfrastructureReady condition is the
\* Ready condition of the infrastructure object when it has one, and True
\* when it has none.
C15_InfraReadyProvisionedConditionMirrored ==
    [][(ReconcileOkStep /\ InfraReadyWithEndpoint)
       => /\ InfraRecorded
          /\ cluster'.conditions[InfrastructureReadyCondition] =
                IF objs["infra"].readyCondition = "Absent"
                THEN [status |-> "True", severity |-> "", reason |-> ""]
                ELSE ProviderCondition(objs["infra"].readyCondition)]_vars

\* C15 witness: a reconcile copied the endpoint of a ready infrastructure
\* object that has no Ready condition and ended in Provisioned with the
\* InfrastructureReady condition True.
C15_Witness ==
    /\ ReconciledOk
    /\ <<"patch", "infra">> \in last.events
    /\ objs["infra"].readyCondition = "Absent"
    /\ cluster.infrastructureReady
    /\ cluster.controlPlaneEndpoint = ValidEndpoint
    /\ IsTrue(cluster, InfrastructureReadyCondition)
    /\ cluster.phase = ClusterPhaseProvisioned

\* The place of a kind in the order of the sub-reconcilers.
OrderOf(k) == CASE k = "infra" -> 1 [] k = "etcd" -> 2 [] k = "cp" -> 3

\* Object k reports a failure reason and a failure message.
ReportsFailure(k) == objs[k].failureReason # "" /\ objs[k].failureMessage # ""

\* The reconcile of this step returned no error and got past the pause gate
\* and the adoption of object k.
Processed(k) == ReconcileOkStep /\ <<"patch", k>> \in last'.events

\* The world with no failure reported by any object.
NoFailureReported(w) ==
    [w EXCEPT !.objs = [k \in Kinds |->
                           [w.objs[k] EXCEPT !.failureReason = "", !.failureMessage = ""]]]

\* The Cluster holds the reason and the cited message of object k after the
\* step, and the phase is Failed unless the Cluster is being deleted.
FailureCopiedFrom(k) ==
    /\ cluster'.failureReason = objs[k].failureReason
    /\ cluster'.failureMessage =
           <<"Failure detected from referenced resource", k, objs[k].failureMessage>>
    /\ ~cluster'.deletionTimestamp => cluster'.phase = ClusterPhaseFailed

\* C16 as stated: every referenced, unpaused object that reports a failure
\* has its reason and cited message in the Cluster after the reconcile.
C16_FailureCopied ==
    [][\A k \in Kinds : (Processed(k) /\ ReportsFailure(k)) => FailureCopiedFrom(k)]_vars

\* C16: after a reconcile, the Cluster holds the reason and the cited message
\* of the last object, in the order infrastructure, etcd, control plane, that
\* the reconcile processed and that reports a failure, and the phase is Failed
\* unless the Cluster is being deleted; what the reconcile returns does not
\* depend on the failures the objects report.
C16_LastFailureCopied ==
    [][/\ \A k \in Kinds :
            (/\ Processed(k)
             /\ ReportsFailure(k)
             /\ \A j \in Kinds :
                   (OrderOf(j) > OrderOf(k) /\ <<"patch", j>> \in last'.events)
                   => (objs[j].failureReason = "" /\ objs[j].failureMessage = ""))
            => FailureCopiedFrom(k)
       /\ ReconcileStep
            => \E r \in {reconcile(NoFailureReported(World))} : r.res = last'.res]_vars

\* C16 witness: a reconcile copied the failure of the infrastructure object
\* and ended in Failed without returning an error.
C16_Witness ==
    /\ ReconciledOk
    /\ <<"patch", "infra">> \in last.events
    /\ cluster.failureReason = ReasonOf("infra")
    /\ cluster.failureMessage =
           <<"Failure detected from referenced resource", "infra", MessageOf("infra")>>
    /\ cluster.phase = ClusterPhaseFailed

\* C17 as stated: a reconcile never overwrites a failure reason or message
\* the Cluster already holds.
C17_FirstFailureKept ==
    [][ReconcileStep
       => /\ cluster.failureReason # "" => cluster'.failureReason = cluster.failureReason
          /\ cluster.failureMessage # <<>>
                => cluster'.failureMessage = cluster.failureMessage]_vars

\* The objects the reconcile of this step processed that report a reason,
\* and those that report a message.
ReasonReporters ==
    {k \in Kinds : <<"patch", k>> \in last'.events /\ objs[k].failureReason # ""}

MessageReporters ==
    {k \in Kinds : <<"patch", k>> \in last'.events /\ objs[k].failureMessage # ""}

LastOf(ks) == CHOOSE k \in ks : \A j \in ks : OrderOf(j) <= OrderOf(k)

\* C17: after a reconcile without error the failure reason is that of the
\* last object, in the order infrastructure, etcd, control plane, that the
\* reconcile processed and that reports one, and the reason held before when
\* none does; likewise, separately, for the failure message.
C17_LastFailureKept ==
    [][ReconcileOkStep
       => /\ cluster'.failureReason =
                IF ReasonReporters = {} THEN cluster.failureReason
                ELSE objs[LastOf(ReasonReporters)].failureReason
          /\ cluster'.failureMessage =
                IF MessageReporters = {} THEN cluster.failureMessage
                ELSE <<"Failure detected from referenced resource",
                       LastOf(MessageReporters),
                       objs[LastOf(MessageReporters)].failureMessage>>]_vars

\* C17 witness: the infrastructure object and the control plane object both
\* report a failure and the Cluster holds the control plane's.
C17_Witness ==
    /\ ReconciledOk
    /\ <<"patch", "infra">> \in last.events
    /\ <<"patch", "cp">> \in last.events
    /\ objs["infra"].failureReason # ""
    /\ cluster.failureReason = ReasonOf("cp")

\* Some referenced object does not exist.
SomeObjectNotFound == \E k \in Kinds : HasRef(cluster, k) /\ ~objs[k].exists

\* The kubeconfig sub-reconciler of this step had to mint the secret and the
\* cluster CA secret does not exist.
CAMissing ==
    /\ IsValid(cluster'.controlPlaneEndpoint)
    /\ ~cluster.controlPlaneRef
    /\ ~secrets.kubeconfig
    /\ ~secrets.ca

\* The reconcile of this step processed an object that is not ready.
SomeObjectNotReady ==
    \E k \in Kinds :
        /\ <<"patch", k>> \in last'.events
        /\ ~objs[k].deletionTimestamp
        /\ ~IsReady(objs[k])

\* C18 as stated: a reconcile without error that meets a soft miss (an object
\* not found, the CA secret missing, an object not ready) returns
\* requeueAfter = 30s.
C18_SoftMissRequeues ==
    [][(ReconcileOkStep /\ (SomeObjectNotFound \/ CAMissing \/ SomeObjectNotReady))
       => last'.res.requeueAfter = RequeueSeconds]_vars

\* C18: a reconcile without error returns requeueAfter = 30s when a
\* referenced object is not found or the CA secret is missing, and creates no
\* kubeconfig then; when every referenced object exists and the CA secret is
\* not missed it returns an empty result, not ready objects included.
C18_NotFoundRequeuesNotReadyDoesNot ==
    [][ReconcileOkStep
       => /\ (SomeObjectNotFound \/ CAMissing)
             => last'.res.requeueAfter = RequeueSeconds
          /\ CAMissing => ~secrets'.kubeconfig
          /\ (~SomeObjectNotFound /\ ~CAMissing) => last'.res = Ok]_vars

\* C18 witness: a reconcile copied the endpoint of the infrastructure object,
\* found no kubeconfig and no CA secret, and returned requeueAfter = 30s.
C18_Witness ==
    /\ Reconciled
    /\ last.res = RequeueAfter30
    /\ <<"patch", "infra">> \in last.events
    /\ IsValid(cluster.controlPlaneEndpoint)
    /\ ~cluster.controlPlaneRef
    /\ ~secrets.kubeconfig
    /\ ~secrets.ca

\* The step is a change from outside that takes the paused annotation off
\* object k, which the reconcile just before had fetched and found paused
\* (and had not paused itself).
UnpausedAfterPausedFetch(k) ==
    /\ Reconciled
    /\ <<"paused", k>> \in last.events
    /\ <<"pause", k>> \notin last.events
    /\ last'.op = "env"
    /\ objs[k].exists /\ objs'[k].exists
    /\ HasPausedAnnotation(objs[k])
    /\ ~HasPausedAnnotation(objs'[k])

\* C19: taking the paused annotation off a referenced object that the
\* reconciler has fetched puts the Cluster in the work-queue, whatever state
\* the object was in when the reconciler fetched it.
C19_UnpauseIsDelivered ==
    [][\A k \in Kinds : UnpausedAfterPausedFetch(k) => queued']_vars

\* The reconcile of this step created the kubeconfig secret, or changed
\* which secrets exist.
TouchesKubeconfig ==
    \/ <<"create", "kubeconfig">> \in last'.events
    \/ secrets' # secrets

\* C20: a reconcile creates the kubeconfig secret only when the endpoint is
\* valid, controlPlaneRef is unset, the secret does not exist and the CA
\* secret does; it touches no secret when controlPlaneRef is set, the endpoint
\* is invalid or the kubeconfig exists; and when the CA secret is missing it
\* returns requeueAfter = 30s and creates nothing.
C20_KubeconfigOnlyWhenUnmanaged ==
    [][ReconcileStep
       => /\ TouchesKubeconfig
             => /\ IsValid(cluster'.controlPlaneEndpoint)
                /\ ~cluster.controlPlaneRef
                /\ ~secrets.kubeconfig
                /\ secrets.ca
                /\ secrets' = [secrets EXCEPT !.kubeconfig = TRUE]
                /\ ~last'.res.err
          /\ (\/ cluster.controlPlaneRef
              \/ ~IsValid(cluster'.controlPlaneEndpoint)
              \/ secrets.kubeconfig) => ~TouchesKubeconfig
          /\ (~last'.res.err /\ CAMissing)
             => (last'.res.requeueAfter = RequeueSeconds /\ ~TouchesKubeconfig)]_vars

\* C20 witness: a reconcile minted the kubeconfig secret of a Cluster without
\* controlPlaneRef from the CA secret.
C20_Witness ==
    /\ ReconciledOk
    /\ <<"create", "kubeconfig">> \in last.events
    /\ secrets.kubeconfig
    /\ secrets.ca
    /\ ~cluster.controlPlaneRef
    /\ IsValid(cluster.controlPlaneEndpoint)

----------------------------------------------------------------------------
\* The resource enumerator: properties of SpecList.

Range(s) == {s[i] : i \in 1..Len(s)}

\* The objects the call returned.
Returned == Range(listing.ret)

\* The CRDs of the server whose instances must not be returned: the CRD
\* carries a provider label, or the selector is cert-manager's.
ExcludedCRDs ==
    {crd \in Range(CRDList(listing.provider)) :
        \/ \E l \in crd.labels : l[1] = "cluster.x-k8s.io/provider"
        \/ <<"clusterctl.cluster.x-k8s.io/core", "cert-manager">> \in listing.labels}

\* The object's (group, version, kind) is a version of an excluded CRD.
InExclusionSet(item) ==
    \E crd \in ExcludedCRDs :
        /\ item.kind = crd.kind
        /\ item.apiVersion \in {<<crd.group, v>> : v \in Range(crd.versions)}

\* The List call for these objects answered NotFound.
AnsweredNotFound(gv, kind, namespace) ==
    /\ listing.fault.kind = "NotFound"
    /\ listing.fault.call = <<"list", GroupVersionString(gv), kind, namespace>>

\* The Deployments of the selected component in the listed namespaces.
MatchingDeployments ==
    UNION {{o \in Range(Stored(<<"apps", "v1">>, "Deployment", ns)) :
               listing.labels \subseteq o.labels} :
           ns \in {n \in Range(listing.namespaces) :
                     ~AnsweredNotFound(<<"apps", "v1">>, "Deployment", n)}}

\* C21: ListResources never returns an object whose (group, version, kind)
\* is in the exclusion set (every version of every CRD with a provider label,
\* and of every CRD when the selector's core label is cert-manager); when it
\* returns without error, the matching objects of a resource that is not
\* excluded (the component's Deployments in the listed namespaces) are
\* returned.
C21_ExcludedNeverReturned ==
    listing.done =>
        /\ \A item \in Returned : ~InExclusionSet(item)
        /\ listing.err = "" => MatchingDeployments \subseteq Returned

\* A provider's components are listed on a server that prefers the second
\* version of the provider's labelled CRD: the Deployment is returned, no
\* AWSCluster is.
C21_Witness ==
    /\ listing.done /\ listing.err = ""
    /\ <<"cluster.x-k8s.io/provider", "infrastructure-aws">> \in listing.labels
    /\ listing.provider["AWSCluster"] = "infrastructure-azure"
    /\ listing.preferred = "v1alpha4"
    /\ listing.namespaces = <<"ns1", "ns2">>
    /\ \E item \in Returned : item.kind = "Deployment" /\ item.namespace = "ns2"
    /\ \A item \in Returned : item.kind # "AWSCluster"
    /\ \E item \in Returned : item.kind = "Certificate"

\* One call is unavailable for fewer attempts than a retried read makes: a
\* later attempt within the bound succeeds.
TransientFault ==
    /\ listing.fault.kind = "Unavailable"
    /\ listing.fault.fails < ReadBackoffSteps

\* C22 as stated: every listing call of ListResources, the per-resource
\* object list included, is retried with bounded backoff, so a transient
\* failure that a later attempt within the bound outlives does not fail the
\* enumeration.
C22_EveryListRetried ==
    listing.done /\ TransientFault => listing.err = ""

\* What the same call returns from a server without the fault.
FaultFree == ListResources([listing EXCEPT !.fault = NoFault])

\* The object is read by the List call that carries the fault.
FromFaultyCall(item) ==
    listing.fault.call =
        <<"list", GroupVersionString(item.apiVersion), item.kind, item.namespace>>

\* The faulty call is a per-resource List that the enumeration makes.
FaultyListMade == \E item \in Range(FaultFree.ret) : FromFaultyCall(item)

\* C23: a NotFound answer of a per-resource List is benign: the call
\* contributes no object and the enumeration continues and returns the
\* objects of every other list; any other error of a per-resource List is
\* fatal: ListResources returns the error and no partial list.
C23_NotFoundBenignOtherFatal ==
    listing.done /\ FaultyListMade =>
        /\ listing.fault.kind = "NotFound" =>
              /\ listing.err = ""
              /\ listing.ret = SelectSeq(FaultFree.ret, LAMBDA item : ~FromFaultyCall(item))
        /\ listing.fault.kind = "Unavailable" =>
              /\ listing.err # ""
              /\ listing.ret = <<>>

\* The List of the Deployments in ns1 answers NotFound: the call returns
\* without error the Deployment of ns2 and the ClusterRole listed after it.
C23_Witness ==
    /\ listing.done /\ FaultyListMade
    /\ listing.fault = [call |-> <<"list", "apps/v1", "Deployment", "ns1">>,
                        kind |-> "NotFound", fails |-> ReadBackoffSteps]
    /\ listing.err = ""
    /\ \A item \in Returned : ~(item.kind = "Deployment" /\ item.namespace = "ns1")
    /\ \E item \in Returned : item.kind = "Deployment" /\ item.namespace = "ns2"
    /\ \E item \in Returned : item.kind = "ClusterRole"

----------------------------------------------------------------------------
\* The reconciler again: properties of Spec.

PausePairs(o) == {a \in o.annotations : a[1] = PausedAnnotation}

\* C24 as stated: the reconcile that pauses the control plane adds the paused
\* annotation with value "true" and leaves every other annotation of the
\* control-plane object unchanged, and the reconcile that resumes it removes
\* the paused annotation alone, so that a pause followed by a resume returns
\* the annotations to what they were.
C24_PauseKeepsOtherAnnotations ==
    [][/\ ReconcileStep /\ <<"pause", "cp">> \in last'.events =>
              objs'["cp"].annotations =
                  (objs["cp"].annotations \ PausePairs(objs["cp"]))
                      \cup {<<PausedAnnotation, "true">>}
       /\ ReconcileStep /\ <<"resume", "cp">> \in last'.events
                        /\ <<"pause", "cp">> \notin last'.events =>
              objs'["cp"].annotations =
                  objs["cp"].annotations \ PausePairs(objs["cp"])]_vars

\* The Cluster names a managed external etcd and no control plane (and no
\* infrastructure), and the etcd object is alive, unpaused and ready.
EtcdReadyNoControlPlane ==
    /\ cluster.managedExternalEtcdRef
    /\ ~cluster.controlPlaneRef /\ ~cluster.infrastructureRef
    /\ objs["etcd"].exists /\ ~objs["etcd"].deletionTimestamp
    /\ ~IsPaused(cluster, objs["etcd"])
    /\ IsReady(objs["etcd"])

\* C25 as stated: with managedExternalEtcdRef set, controlPlaneRef unset and
\* the etcd object alive, unpaused and ready, reconcileEtcdCluster fetches no
\* control plane, completes without error or crash, and records the etcd
\* cluster as ready on the Cluster.
C25_EtcdReadyWithoutControlPlane ==
    [][ReconcileStep /\ EtcdReadyNoControlPlane =>
          /\ ~last'.res.err /\ ~last'.res.panic
          /\ <<"get", "cp">> \notin last'.events
          /\ cluster'.managedExternalEtcdReady
          /\ IsTrue(cluster', ManagedExternalEtcdClusterReadyCondition)]_vars

\* The infrastructure object is fetched, not paused and not being deleted.
InfraAlive ==
    /\ cluster.infrastructureRef
    /\ objs["infra"].exists
    /\ ~IsPaused(cluster, objs["infra"])
    /\ ~objs["infra"].deletionTimestamp

\* No other sub-reconciler runs and the infrastructure object can be adopted:
\* an error of the reconcile comes from the steps after the adoption.
OnlyInfraAdoptable ==
    /\ ~cluster.controlPlaneRef /\ ~cluster.managedExternalEtcdRef
    /\ objs["infra"].ownerRef # "other"

\* The reconcile took the endpoint (an error when the infrastructure object
\* has none) and the failure domains (none is benign) of the infrastructure
\* object.
EndpointAndFailureDomainsTaken ==
    /\ (~IsValid(cluster.controlPlaneEndpoint) /\ ~objs["infra"].endpoint.present)
          => last'.res.err
    /\ ~last'.res.err =>
          /\ ~IsValid(cluster.controlPlaneEndpoint) =>
                cluster'.controlPlaneEndpoint = objs["infra"].endpoint.value
          /\ objs["infra"].failureDomains = "present" =>
                cluster'.failureDomains = "copied"
    /\ (/\ objs["infra"].failureDomains = "missing"
        /\ OnlyInfraAdoptable
        /\ IsValid(cluster.controlPlaneEndpoint) \/ objs["infra"].endpoint.present)
          => ~last'.res.err

\* C26 as stated: for every infrastructure object that is fetched, unpaused
\* and not being deleted, whatever its status.ready, the reconcile extracts
\* spec.controlPlaneEndpoint when the Cluster's endpoint is not valid (an
\* error when the field is missing) and copies status.failureDomains when
\* present (missing is benign).
C26_EndpointTakenWhateverReady ==
    [][ReconcileStep /\ InfraAlive => EndpointAndFailureDomainsTaken]_vars

\* C26: for every infrastructure object that is fetched, unpaused, not being
\* deleted and has status.ready = true, the reconcile extracts
\* spec.controlPlaneEndpoint when the Cluster's endpoint is not valid (an
\* error when the field is missing) and copies status.failureDomains when
\* present (missing is benign); when status.ready is false the reconcile
\* returns without error before either and leaves both fields of the Cluster
\* unchanged.
C26_EndpointTakenWhenReady ==
    [][ReconcileStep /\ InfraAlive =>
          IF IsReady(objs["infra"])
          THEN EndpointAndFailureDomainsTaken
          ELSE /\ cluster'.controlPlaneEndpoint = cluster.controlPlaneEndpoint
               /\ cluster'.failureDomains = cluster.failureDomains
               /\ OnlyInfraAdoptable => ~last'.res.err]_vars

\* A reconcile without error recorded the endpoint and the failure domains of
\* a ready infrastructure object.
C26_Witness ==
    /\ ReconciledOk
    /\ <<"patch", "infra">> \in last.events
    /\ IsReady(objs["infra"])
    /\ objs["infra"].failureDomains = "present"
    /\ cluster.failureDomains = "copied"
    /\ objs["infra"].endpoint.present
    /\ cluster.controlPlaneEndpoint = objs["infra"].endpoint.value

\* C27: the reconciler never clears a failure: a reconcile leaves a set
\* failureReason set and a set failureMessage set, also when the referenced
\* object has withdrawn its failure; so a reconcile of a Cluster that is in
\* phase Failed with a failure field set and is not being deleted ends in
\* Failed with a failure field set: only a write from outside the reconciler
\* that clears the fields ends the Failed phase.
C27_FailureNeverCleared ==
    [][ReconcileStep =>
          /\ cluster.failureReason # "" => cluster'.failureReason # ""
          /\ cluster.failureMessage # <<>> => cluster'.failureMessage # <<>>
          /\ (/\ cluster.phase = ClusterPhaseFailed
              /\ FailureSet(cluster)
              /\ ~cluster.deletionTimestamp)
                => cluster'.phase = ClusterPhaseFailed /\ FailureSet(cluster')]_vars

\* A later reconcile processed the objects after every failure was withdrawn
\* and the Cluster is still Failed.
C27_Witness ==
    /\ ReconciledOk
    /\ \E k \in Kinds : <<"patch", k>> \in last.events
    /\ \A k \in Kinds : objs[k].failureReason = "" /\ objs[k].failureMessage = ""
    /\ ~cluster.deletionTimestamp
    /\ cluster.phase = ClusterPhaseFailed
    /\ cluster.failureReason # "" /\ cluster.failureMessage # <<>>

\* The reconcile of this step wrote no referenced object.
NoProviderWrite ==
    /\ objs' = objs
    /\ \A k \in Kinds : <<"patch", k>> \notin last'.events
    /\ <<"pause", "cp">> \notin last'.events
    /\ <<"resume", "cp">> \notin last'.events

\* C28 as stated: while the Cluster itself is paused, a reconcile writes no
\* referenced provider object: reconcileControlPlane does not add the paused
\* annotation to the control plane when etcd is not ready and
\* reconcileEtcdCluster does not remove it when etcd is ready.
C28_ClusterPausedNoWrite ==
    [][ReconcileStep /\ cluster.paused => NoProviderWrite]_vars

\* The control plane and a managed external etcd that is not ready both
\* exist.
EtcdNotReadyWithControlPlane ==
    /\ cluster.controlPlaneRef /\ cluster.managedExternalEtcdRef
    /\ objs["etcd"].exists /\ ~IsReady(objs["etcd"])
    /\ objs["cp"].exists

\* C28: while the Cluster itself is paused, a reconcile patches no referenced
\* object, leaves the infrastructure and etcd objects as they are and does
\* not remove the paused annotation from the control plane when etcd is
\* ready; but reconcileControlPlane still updates the control-plane object
\* with the paused annotation when etcd is not ready, and that is the only
\* write.
C28_ClusterPausedOnlyPauseWrite ==
    [][ReconcileStep /\ cluster.paused =>
          /\ \A k \in Kinds : <<"patch", k>> \notin last'.events
          /\ <<"resume", "cp">> \notin last'.events
          /\ objs'["infra"] = objs["infra"] /\ objs'["etcd"] = objs["etcd"]
          /\ IF EtcdNotReadyWithControlPlane
             THEN /\ <<"pause", "cp">> \in last'.events
                  /\ objs'["cp"] = [objs["cp"] EXCEPT
                                       !.annotations = {<<PausedAnnotation, "true">>}]
             ELSE /\ <<"pause", "cp">> \notin last'.events
                  /\ objs'["cp"] = objs["cp"]]_vars

\* A reconcile of a paused Cluster paused a control plane that carried no
\* paused annotation, and then stopped at the pause gate.
C28_Witness ==
    /\ Reconciled
    /\ cluster.paused
    /\ <<"pause", "cp">> \in last.events
    /\ <<"paused", "cp">> \in last.events
    /\ objs["cp"].annotations = {<<PausedAnnotation, "true">>}
    /\ objs["cp"].ownerRef # "cluster"
    /\ ~IsReady(objs["etcd"])

----------------------------------------------------------------------------
\* Liveness of the resume: properties of SpecFair.

\* The Cluster names an etcd cluster and a control plane, both objects exist,
\* the etcd cluster is ready, the Cluster is not paused and no other
\* controller owns either object.
EtcdReadyForResume ==
    /\ cluster.controlPlaneRef /\ cluster.managedExternalEtcdRef
    /\ ~cluster.paused
    /\ objs["cp"].exists /\ objs["cp"].ownerRef # "other"
    /\ objs["etcd"].exists /\ IsReady(objs["etcd"])
    /\ objs["etcd"].ownerRef # "other"

\* The etcd object passes the pause gate and is not being deleted.
EtcdAlive ==
    /\ ~HasPausedAnnotation(objs["etcd"])
    /\ ~objs["etcd"].deletionTimestamp

\* The control plane carries no paused annotation and is adopted.
ResumedAndAdopted(o) ==
    /\ ~HasPausedAnnotation(o)
    /\ o.ownerRef = "cluster" /\ o.clusterLabel = ClusterName

----------------------------------------------------------------------------
\* The two reads of the etcd readiness: properties of SpecSteps.

\* The reconcile that just ended recorded the etcd cluster as ready.
RecordedEtcdReady ==
    /\ ReconciledOk
    /\ <<"etcdReadReady", "true">> \in last.events
    /\ cluster.managedExternalEtcdReady

\* C30 as stated: a reconcile that completes without error never ends with
\* managedExternalEtcdReady = true, as read by reconcileEtcdCluster, while
\* the same reconcile added the paused annotation to the control plane, even
\* if a writer changes the readiness of the etcd object between the two
\* sub-reconcilers.
C30_NeverReadyAndPaused ==
    RecordedEtcdReady => <<"pause", "cp">> \notin last.events

\* C30: reconcileEtcdCluster and reconcileControlPlane each read the
\* readiness of the etcd object from the API server; a reconcile that
\* completes without error in which both read it as ready does not add the
\* paused annotation to the control plane, and one in which the second read
\* finds it not ready and the control plane exists adds it, whatever the
\* first read found.
C30_PausedByTheSecondRead ==
    ReconciledOk =>
        /\ <<"cpReadEtcdReady", "true">> \in last.events
              => <<"pause", "cp">> \notin last.events
        /\ (/\ <<"cpReadEtcdReady", "false">> \in last.events
            /\ <<"get", "cp">> \in last.events
            /\ last.res.requeueAfter = 0)
              => <<"pause", "cp">> \in last.events

\* A reconcile read the etcd cluster as ready in both sub-reconcilers,
\* resumed the control plane and recorded the readiness.
C30_Witness ==
    /\ RecordedEtcdReady
    /\ <<"cpReadEtcdReady", "true">> \in last.events
    /\ <<"resume", "cp">> \in last.events
    /\ <<"pause", "cp">> \notin last.events
    /\ ~HasPausedAnnotation(objs["cp"])

====
